---- MODULE Spec2Model ----
(***************************************************************************)
(* Slot-reservation and ticket-ledger engine of the Loafy Club booking     *)
(* backend: create_booking_with_lock (core/src/booking/create.rs),         *)
(* cancel_booking (core/src/booking/cancel.rs) and the release_unpaid job  *)
(* (jobs/src/jobs/release_unpaid.rs) over the PostgreSQL tables sessions,  *)
(* bookings, subscriptions and ticket_transactions.                        *)
(*                                                                         *)
(* The database runs at READ COMMITTED.  A statement executed on the pool  *)
(* is its own transaction and takes effect at once.  A statement executed  *)
(* on a sqlx Transaction is buffered in the caller's locals and becomes    *)
(* visible at commit; the row locks it takes (SELECT ... FOR UPDATE,       *)
(* UPDATE) are held until commit or rollback, and any other writer of the  *)
(* same row waits for them.                                                *)
(***************************************************************************)
EXTENDS Integers, Sequences, FiniteSets, TLC

\* SQL NULL / Rust None for integer columns
NULL == -1

\* ---- bounds of the model ----
MaxCalls == 2
MaxSweeps == 2
MaxFaults == 1
InitialTickets == 1

\* ---- constants of the program ----
DEFAULT_PRICE_VND == 100000
DEFAULT_DISCOUNT_PERCENT == 10
PAYMENT_WINDOW_MINUTES == 30
DEFAULT_DROP_IN_CANCELLATION_HOURS == 48
DEFAULT_SUBSCRIBER_CANCELLATION_HOURS == 24
MINUTES_PER_HOUR == 60
MINUTES_PER_DAY == 1440

Users == {"u1", "u2"}
\* request slots of the API server
Procs == {1, 2}
\* no holder of a row lock
NOBODY == 0
Reapers == {"r1"}
\* "s0" is an id with no row in the sessions table
SessionIds == {"s1", "s2", "s3"}
\* requests the API layer passes to create_booking_with_lock: <<user, session, guests>>
CreateRequests ==
    {<<u, s, 0>> : u \in Users, s \in {"s1", "s2"}}
        \cup {<<"u1", "s1", 1>>, <<"u2", "s3", 0>>, <<"u2", "s0", 0>>}
\* instants (minutes) at which the clock is observed
Instants == <<1410, 1440, 1441>>
\* values the config table can hold for subscriber_out_of_ticket_discount_percent
\* (NULL = no row, or a value that does not parse as an integer)
ConfigDiscounts == {NULL, 20}

VARIABLES
    sessions,             \* sessions table: id -> row
    bookings,             \* bookings table: sequence of rows, id = index
    subscriptions,        \* subscriptions table: user -> row (status "absent" = no row)
    users,                \* users table: user -> row
    ticket_transactions,  \* ticket_transactions table, in insertion order
    sessLock,             \* session id -> holder of the row lock or NOBODY
    subLock,              \* user -> holder of the subscription row lock
    pc,                   \* API request -> position in its handler
    loc,                  \* API request -> locals of the handler
    sweep,                \* reaper -> position and locals of release_unpaid_bookings
    clock,                \* index into Instants
    calls,                \* API calls started
    sweeps,               \* sweeps started
    faults,               \* storage failures injected
    releases,             \* actor -> booking id -> times the actor returned its slots
    restores              \* actor -> booking id -> times the actor restored its ticket

db == <<sessions, bookings, subscriptions, ticket_transactions, users>>
vars == <<sessions, bookings, subscriptions, ticket_transactions, users, sessLock, subLock,
          pc, loc, sweep, clock, calls, sweeps, faults, releases, restores>>

now == Instants[clock]

\* Rust integer division truncates toward zero
TruncDiv(a, b) == IF a >= 0 THEN a \div b ELSE -((-a) \div b)

\* ---- i32 arithmetic: prices and counts are Rust i32 ----
MAX_I32 == 2147483647
MIN_I32 == -MAX_I32 - 1

\* a + b leaves the i32 range
AddOverflows(a, b) ==
    \/ a > 0 /\ b > MAX_I32 - a
    \/ a < 0 /\ b < MIN_I32 - a

\* a + b modulo 2^32 (two's complement), as a build without overflow checks computes it
AddWrap(a, b) ==
    IF a > 0 /\ b > MAX_I32 - a THEN (a - MAX_I32 - 1) + (b - MAX_I32 - 1)
    ELSE IF a < 0 /\ b < MIN_I32 - a THEN (a + MAX_I32 + 1) + (b + MAX_I32 + 1)
    ELSE a + b

\* a * n leaves the i32 range; a * n = (-a) * (-n) for n < 0
RECURSIVE MulOverflows(_, _)
MulOverflows(a, n) ==
    IF n < 0
    THEN IF a = MIN_I32 THEN TRUE ELSE MulOverflows(-a, -n)
    ELSE /\ n > 0
         /\ \/ a > MAX_I32 \div n
            \/ a < 0 /\ a < (MIN_I32 + n - 1) \div n

\* a * n modulo 2^32; for n < 0 the two's complement negation of a * (-n)
RECURSIVE MulWrap(_, _)
MulWrap(a, n) ==
    IF n = 0 THEN 0
    ELSE IF n < 0
    THEN CHOOSE product \in
            {IF positive = MIN_I32 THEN MIN_I32 ELSE -positive :
                positive \in {MulWrap(a, -n)}} : TRUE
    ELSE CHOOSE product \in
            {IF n % 2 = 1 THEN AddWrap(AddWrap(half, half), a) ELSE AddWrap(half, half) :
                half \in {MulWrap(a, n \div 2)}} : TRUE

Max(a, b) == IF a >= b THEN a ELSE b

RECURSIVE SumSeq(_)
SumSeq(s) == IF s = <<>> THEN 0 ELSE Head(s) + SumSeq(Tail(s))

BookingIds == 1..MaxCalls

\* callers of the reversal primitives
Actors == {"cancel", "reaper"}

\* ---------------------------------------------------------------------------
\* Initial database
\* ---------------------------------------------------------------------------
InitSessions ==
    [s \in SessionIds |->
        CASE s = "s1" -> [courts |-> 1, max_players_per_court |-> 2,
                          total_slots |-> 2, available_slots |-> 2, cancelled |-> FALSE,
                          date |-> 3, time |-> 0, price_vnd |-> 100000,
                          drop_in_cancellation_hours |-> NULL,
                          subscriber_cancellation_hours |-> NULL]
          [] s = "s2" -> [courts |-> 1, max_players_per_court |-> 1,
                          total_slots |-> 1, available_slots |-> 1, cancelled |-> FALSE,
                          date |-> 0, time |-> 1439, price_vnd |-> NULL,
                          drop_in_cancellation_hours |-> 1,
                          subscriber_cancellation_hours |-> 0]
          [] OTHER    -> [courts |-> 1, max_players_per_court |-> 1,
                          total_slots |-> 1, available_slots |-> 1, cancelled |-> TRUE,
                          date |-> 3, time |-> 0, price_vnd |-> NULL,
                          drop_in_cancellation_hours |-> NULL,
                          subscriber_cancellation_hours |-> NULL]]

InitSubscriptions ==
    [u \in Users |->
        IF u = "u1" THEN [status |-> "active", tickets_remaining |-> InitialTickets]
                    ELSE [status |-> "absent", tickets_remaining |-> 0]]

\* no user is deleted
InitUsers == [u \in Users |-> [deleted_at |-> NULL]]

\* the grant that created the subscription's balance
InitLedger ==
    <<[user |-> "u1", booking_id |-> NULL, transaction_type |-> "subscription_grant",
       amount |-> InitialTickets, balance_after |-> InitialTickets]>>

\* locals of a request handler.  refunds is the set of PaymentIntents the
\* handler has asked the gateway to refund: StripePayments::refund_payment has
\* no caller, so no handler adds to it.  amount is the number an admin request
\* carries (tickets, guests or slots); todo, tx_release, tx_cancelled,
\* tx_guest_count and tx_started belong to the admin transactions.  tx_patch
\* is the committed ledger row a reservation transaction updated, if any.
IdleLoc ==
    [op |-> "none", user |-> "", session_id |-> "", guest_count |-> 0, booking_id |-> 0,
     result |-> "", session |-> <<>>, booking |-> <<>>,
     tickets |-> NULL, new_balance |-> NULL, discount_percent |-> NULL,
     is_subscriber |-> FALSE, start_avail |-> NULL, failed_at |-> "", detail |-> <<>>,
     refunds |-> {}, amount |-> NULL, todo |-> <<>>,
     tx_release |-> [s \in SessionIds |-> 0], tx_cancelled |-> {}, tx_guest_count |-> NULL, tx_started |-> NULL,
     tx_patch |-> NULL,
     tx_tickets |-> 0, tx_ledger |-> <<>>, tx_booking |-> <<>>, tx_slots |-> 0]

IdleSweep == [pc |-> "idle", before |-> 0, todo |-> {}, cur |-> <<>>, new_balance |-> NULL,
              result |-> ""]

Init ==
    /\ sessions = InitSessions
    /\ bookings = <<>>
    /\ users = InitUsers
    /\ subscriptions = InitSubscriptions
    /\ ticket_transactions = InitLedger
    /\ sessLock = [s \in SessionIds |-> NOBODY]
    /\ subLock = [u \in Users |-> NOBODY]
    /\ pc = [p \in Procs |-> "idle"]
    /\ loc = [p \in Procs |-> IdleLoc]
    /\ sweep = [r \in Reapers |-> IdleSweep]
    /\ clock = 1
    /\ calls = 0
    /\ sweeps = 0
    /\ faults = 0
    /\ releases = [a \in Actors |-> [b \in BookingIds |-> 0]]
    /\ restores = [a \in Actors |-> [b \in BookingIds |-> 0]]

\* ---------------------------------------------------------------------------
\* Queries (db/src/queries)
\* ---------------------------------------------------------------------------

\* the duplicate check with the cancelled_at filter inverted
has_cancelled_booking_for_session(user_id, session_id) ==
    \E i \in 1..Len(bookings) :
        /\ bookings[i].user_id = user_id
        /\ bookings[i].session_id = session_id
        /\ bookings[i].cancelled_at # NULL

\* bookings::has_active_booking_for_session: COUNT(*) > 0 over committed rows
has_active_booking_for_session(user_id, session_id) ==
    \E i \in 1..Len(bookings) :
        /\ bookings[i].user_id = user_id
        /\ bookings[i].session_id = session_id
        /\ bookings[i].cancelled_at = NULL

\* subscriptions::has_active_subscription
has_active_subscription(user_id) == subscriptions[user_id].status = "active"

\* the reaper's query without its state filter
find_expired_bookings_any_state(before) ==
    {i \in 1..Len(bookings) :
        /\ bookings[i].payment_deadline # NULL
        /\ bookings[i].payment_deadline < before}

\* the reaper's query with the deadline comparison reversed
find_unpaid_bookings_due_later(before) ==
    {i \in 1..Len(bookings) :
        /\ bookings[i].payment_status = "pending"
        /\ bookings[i].payment_deadline # NULL
        /\ bookings[i].payment_deadline > before
        /\ bookings[i].cancelled_at = NULL}

\* bookings::find_unpaid_expired_bookings
find_unpaid_expired_bookings(before) ==
    {i \in 1..Len(bookings) :
        /\ bookings[i].payment_status = "pending"
        /\ bookings[i].payment_deadline # NULL
        /\ bookings[i].payment_deadline < before
        /\ bookings[i].cancelled_at = NULL}

\* Locks held by a transaction are released at commit and at rollback
ReleaseLocks(p) ==
    /\ sessLock' = [s \in SessionIds |-> IF sessLock[s] = p THEN NOBODY ELSE sessLock[s]]
    /\ subLock' = [u \in Users |-> IF subLock[u] = p THEN NOBODY ELSE subLock[u]]

\* Return from a handler: the locals keep the arguments and the result until
\* the next call of this request slot.  detail is what the error message
\* reports.  start_avail (the session's committed available_slots when the
\* call arrived) and failed_at (the statement at which an error ended the
\* call) are kept for the record only; no handler reads them.
ReturnWith(p, res, detail) ==
    /\ pc' = [pc EXCEPT ![p] = "done"]
    /\ loc' = [loc EXCEPT ![p] = [IdleLoc EXCEPT !.op = loc[p].op, !.user = loc[p].user,
                                     !.session_id = loc[p].session_id,
                                     !.guest_count = loc[p].guest_count,
                                     !.booking_id = loc[p].booking_id,
                                     !.start_avail = loc[p].start_avail,
                                     !.failed_at = IF res # "Ok" THEN pc[p] ELSE "",
                                     !.detail = detail,
                                     !.result = res]]

Return(p, res) == ReturnWith(p, res, <<>>)

\* tx.rollback() or drop of the Transaction: buffered writes are discarded
Rollback(p, res) ==
    /\ Return(p, res)
    /\ ReleaseLocks(p)
    /\ UNCHANGED <<db, sweep, clock, calls, sweeps, faults, releases, restores>>

\* ---------------------------------------------------------------------------
\* create_booking_with_lock (core/src/booking/create.rs)
\* ---------------------------------------------------------------------------

\* the AuthUser extractor resolves the credential to a user that is not
\* soft-deleted
Authenticated(user_id) == users[user_id].deleted_at = NULL

\* A new request is served in the first request slot that is not in use
FreeSlot(p) ==
    /\ pc[p] \in {"idle", "done"}
    /\ \A q \in Procs : q < p => pc[q] \notin {"idle", "done"}

\* line 28: pool.begin()
BeginCreate(p, user_id, session_id, guest_count) ==
    /\ FreeSlot(p)
    /\ Authenticated(user_id)
    /\ calls < MaxCalls
    /\ calls' = calls + 1
    /\ pc' = [pc EXCEPT ![p] = "c_lock"]
    /\ loc' = [loc EXCEPT ![p] = [IdleLoc EXCEPT !.op = "create", !.user = user_id,
                                     !.session_id = session_id,
                                     !.guest_count = guest_count,
                                     !.start_avail =
                                        IF session_id \in SessionIds
                                        THEN sessions[session_id].available_slots
                                        ELSE NULL]]
    /\ UNCHANGED <<db, sessLock, subLock, sweep, clock, sweeps, faults, releases, restores>>

\* the same read without FOR UPDATE: no row lock is taken
find_by_id_without_lock(p) ==
    /\ pc[p] = "c_lock"
    /\ LET s == loc[p].session_id IN
       IF s \notin SessionIds
       THEN Rollback(p, "NotFound")
       ELSE /\ loc' = [loc EXCEPT ![p].session = <<sessions[s]>>]
            /\ pc' = [pc EXCEPT ![p] = "c_dup"]
            /\ UNCHANGED <<db, sessLock, subLock, sweep, clock, calls, sweeps, faults,
                           releases, restores>>

\* the same read locking every row of the sessions table, not only the one read
find_by_id_locking_all_sessions(p) ==
    /\ pc[p] = "c_lock"
    /\ LET s == loc[p].session_id IN
       IF s \notin SessionIds
       THEN Rollback(p, "NotFound")
       ELSE /\ \A t \in SessionIds : sessLock[t] = NOBODY
            /\ sessLock' = [t \in SessionIds |-> p]
            /\ loc' = [loc EXCEPT ![p].session = <<sessions[s]>>]
            /\ pc' = [pc EXCEPT ![p] = "c_dup"]
            /\ UNCHANGED <<db, subLock, sweep, clock, calls, sweeps, faults,
                           releases, restores>>

\* lines 32-38: SELECT * FROM sessions WHERE id = $1 FOR UPDATE
find_by_id_for_update(p) ==
    /\ pc[p] = "c_lock"
    /\ LET s == loc[p].session_id IN
       IF s \notin SessionIds
       THEN Rollback(p, "NotFound")
       ELSE /\ sessLock[s] = NOBODY
            /\ sessLock' = [sessLock EXCEPT ![s] = p]
            /\ loc' = [loc EXCEPT ![p].session = <<sessions[s]>>]
            /\ pc' = [pc EXCEPT ![p] = "c_dup"]
            /\ UNCHANGED <<db, subLock, sweep, clock, calls, sweeps, faults,
                           releases, restores>>

\* slots needed when the owner is not counted
slots_needed_guests_only(guest_count) == guest_count

\* line 67
slots_needed(guest_count) == 1 + guest_count

\* lines 41-76: duplicate check on the pool, then the checks on the locked row
CreateChecks(p) ==
    /\ pc[p] = "c_dup"
    /\ LET session == loc[p].session[1]
           has_existing == has_active_booking_for_session(loc[p].user, loc[p].session_id)
           now_date == now \div MINUTES_PER_DAY
       IN  IF has_existing THEN Rollback(p, "Conflict")
           ELSE IF session.cancelled THEN Rollback(p, "BadRequest")
           ELSE IF session.date < now_date THEN Rollback(p, "BadRequest")
           ELSE IF session.available_slots < slots_needed(loc[p].guest_count)
                THEN Rollback(p, "Conflict")
           ELSE /\ pc' = [pc EXCEPT ![p] = "c_sub"]
                /\ UNCHANGED <<db, sessLock, subLock, loc, sweep, clock, calls, sweeps,
                               faults, releases, restores>>

\* the same read without FOR UPDATE: no row lock is taken
get_active_without_lock(p) ==
    /\ pc[p] = "c_sub"
    /\ LET u == loc[p].user IN
       IF subscriptions[u].status = "active"
       THEN /\ loc' = [loc EXCEPT ![p].tickets = subscriptions[u].tickets_remaining]
            /\ pc' = [pc EXCEPT ![p] =
                        IF subscriptions[u].tickets_remaining > 0 THEN "c_deduct"
                                                                  ELSE "c_config"]
       ELSE /\ pc' = [pc EXCEPT ![p] = "c_insert"]
            /\ UNCHANGED loc
    /\ UNCHANGED <<db, sessLock, subLock, sweep, clock, calls, sweeps, faults, releases,
                   restores>>

\* lines 82-87: SELECT * FROM subscriptions WHERE user_id = $1 AND status = 'active'
\* FOR UPDATE
get_active_for_booking(p) ==
    /\ pc[p] = "c_sub"
    /\ LET u == loc[p].user IN
       IF subscriptions[u].status = "active"
       THEN /\ subLock[u] \in {NOBODY, p}
            /\ subLock' = [subLock EXCEPT ![u] = p]
            /\ loc' = [loc EXCEPT ![p].tickets = subscriptions[u].tickets_remaining]
            /\ pc' = [pc EXCEPT ![p] =
                        IF subscriptions[u].tickets_remaining > 0 THEN "c_deduct"
                                                                  ELSE "c_config"]
       ELSE /\ pc' = [pc EXCEPT ![p] = "c_insert"]
            /\ UNCHANGED <<subLock, loc>>
    /\ UNCHANGED <<db, sessLock, sweep, clock, calls, sweeps, faults, releases, restores>>

\* the deduction executed on the pool instead of the transaction: it takes
\* effect at once and no rollback undoes it
deduct_ticket_on_pool(p) ==
    /\ pc[p] = "c_deduct"
    /\ LET u == loc[p].user IN
       /\ subLock[u] \in {NOBODY, p}
       /\ IF subscriptions[u].tickets_remaining > 0
          THEN /\ subscriptions' = [subscriptions EXCEPT ![u].tickets_remaining = @ - 1]
               /\ loc' = [loc EXCEPT ![p].new_balance =
                                        subscriptions[u].tickets_remaining - 1]
               /\ pc' = [pc EXCEPT ![p] = "c_ledger"]
               /\ UNCHANGED <<sessions, bookings, ticket_transactions, users, sessLock, subLock,
                              sweep, clock, calls, sweeps, faults, releases, restores>>
          ELSE Rollback(p, "Database")

\* lines 94-99: UPDATE subscriptions SET tickets_remaining = tickets_remaining - 1
\* WHERE id = $1 AND tickets_remaining > 0 RETURNING tickets_remaining
deduct_ticket(p) ==
    /\ pc[p] = "c_deduct"
    /\ LET u == loc[p].user IN
       /\ subLock[u] \in {NOBODY, p}
       /\ IF subscriptions[u].tickets_remaining > 0
          THEN /\ subLock' = [subLock EXCEPT ![u] = p]
               /\ loc' = [loc EXCEPT ![p].tx_tickets = -1,
                                     ![p].new_balance = subscriptions[u].tickets_remaining - 1]
               /\ pc' = [pc EXCEPT ![p] = "c_ledger"]
               /\ UNCHANGED <<db, sessLock, sweep, clock, calls, sweeps, faults,
                              releases, restores>>
          ELSE Rollback(p, "Database")

\* lines 102-117: ticket_transactions::create(&mut tx, ..., None, USED, -1, new_balance)
CreateLedgerEntry(p) ==
    /\ pc[p] = "c_ledger"
    /\ loc' = [loc EXCEPT ![p].tx_ledger =
                  Append(@, [user |-> loc[p].user, booking_id |-> NULL,
                             transaction_type |-> "used", amount |-> -1,
                             balance_after |-> loc[p].new_balance])]
    /\ pc' = [pc EXCEPT ![p] = "c_insert"]
    /\ UNCHANGED <<db, sessLock, subLock, sweep, clock, calls, sweeps, faults,
                   releases, restores>>

\* config::get_out_of_ticket_discount: missing row or unparseable value gives 10
get_out_of_ticket_discount(value) ==
    IF value = NULL THEN DEFAULT_DISCOUNT_PERCENT ELSE value

\* lines 122-124, the config table holding one of values
ReadDiscountFrom(p, values) ==
    /\ pc[p] = "c_config"
    /\ \E value \in values :
          loc' = [loc EXCEPT ![p].discount_percent = get_out_of_ticket_discount(value)]
    /\ pc' = [pc EXCEPT ![p] = "c_insert"]
    /\ UNCHANGED <<db, sessLock, subLock, sweep, clock, calls, sweeps, faults,
                   releases, restores>>

\* lines 122-124
ReadDiscount(p) == ReadDiscountFrom(p, ConfigDiscounts)

\* line 79
base_price_vnd(session) ==
    IF session.price_vnd = NULL THEN DEFAULT_PRICE_VND ELSE session.price_vnd

\* lines 90-131: (tickets_used, discount_applied, user_price_vnd)
Pricing(tickets, discount_percent, base) ==
    IF tickets # NULL
    THEN IF tickets > 0
         THEN [tickets_used |-> 1, discount_applied |-> "ticket", user_price_vnd |-> 0]
         ELSE [tickets_used |-> 0, discount_applied |-> "out_of_ticket",
               user_price_vnd |-> TruncDiv(MulWrap(base, 100 - discount_percent), 100)]
    ELSE [tickets_used |-> 0, discount_applied |-> "none", user_price_vnd |-> base]

\* the base price charged once for the guests, not once per guest
guest_price_flat(base, guest_count) == IF guest_count > 0 THEN base ELSE 0

\* line 134
guest_price_vnd(base, guest_count) == MulWrap(base, guest_count)

\* lines 125, 134, 137: one of the i32 operations of the call overflows
ArithmeticOverflows(p) ==
    LET base == base_price_vnd(loc[p].session[1])
        pr == Pricing(loc[p].tickets, loc[p].discount_percent, base)
    IN  \/ /\ loc[p].tickets = 0
           /\ MulOverflows(base, 100 - loc[p].discount_percent)
        \/ MulOverflows(base, loc[p].guest_count)
        \/ AddOverflows(pr.user_price_vnd, guest_price_vnd(base, loc[p].guest_count))

\* lines 133-178: the row inserted into bookings
NewBooking(p) ==
    LET base == base_price_vnd(loc[p].session[1])
        pr == Pricing(loc[p].tickets, loc[p].discount_percent, base)
        guest_price == guest_price_vnd(base, loc[p].guest_count)
        total_amount == AddWrap(pr.user_price_vnd, guest_price)
    IN  [user_id |-> loc[p].user, session_id |-> loc[p].session_id,
         guest_count |-> loc[p].guest_count,
         tickets_used |-> pr.tickets_used, discount_applied |-> pr.discount_applied,
         price_paid_vnd |-> pr.user_price_vnd, guest_price_paid_vnd |-> guest_price,
         payment_status |-> IF total_amount = 0 THEN "confirmed" ELSE "pending",
         payment_deadline |-> IF total_amount > 0 THEN now + PAYMENT_WINDOW_MINUTES
                                                  ELSE NULL,
         stripe_payment_id |-> NULL,
         cancelled_at |-> NULL]

\* lines 125-178: the prices are computed and the row is inserted (INSERT INTO
\* bookings ... RETURNING *).  An i32 overflow in the price arithmetic panics
\* in a build with overflow checks (the dropped Transaction rolls back) and
\* wraps in a build without them.
InsertBooking(p) ==
    /\ pc[p] = "c_insert"
    /\ \/ /\ loc' = [loc EXCEPT ![p].tx_booking = <<NewBooking(p)>>]
          /\ pc' = [pc EXCEPT ![p] = IF NewBooking(p).tickets_used > 0 THEN "c_patch"
                                                                         ELSE "c_decr"]
          /\ UNCHANGED <<db, sessLock, subLock, sweep, clock, calls, sweeps, faults,
                         releases, restores>>
       \/ /\ ArithmeticOverflows(p)
          /\ Rollback(p, "Panic")

\* marker for the id of the row this transaction inserted; resolved at commit
OWN == 0

\* the back-patch left out: the entry keeps its empty booking_id
PatchLedgerEntrySkipped(p) ==
    /\ pc[p] = "c_patch"
    /\ pc' = [pc EXCEPT ![p] = "c_decr"]
    /\ UNCHANGED <<db, sessLock, subLock, loc, sweep, clock, calls, sweeps, faults,
                   releases, restores>>

\* committed 'used' entries of the user that carry no booking_id
UnattachedEntries(user_id) ==
    {i \in 1..Len(ticket_transactions) :
        /\ ticket_transactions[i].user = user_id
        /\ ticket_transactions[i].transaction_type = "used"
        /\ ticket_transactions[i].booking_id = NULL}

\* lines 181-205: UPDATE ticket_transactions SET booking_id = $1 WHERE id = (SELECT
\* id .. WHERE user_id = $2 AND subscription_id = $3 AND transaction_type = 'used'
\* AND booking_id IS NULL ORDER BY created_at DESC LIMIT 1).  The subquery sees
\* the committed entries and the entry this transaction inserted; when both
\* match, which one is the latest depends on their created_at values, which
\* the model does not carry: either of the two can be the row updated.  A
\* committed row is recorded in tx_patch and written at commit.
PatchLedgerEntry(p) ==
    /\ pc[p] = "c_patch"
    /\ LET own == {i \in 1..Len(loc[p].tx_ledger) :
                      /\ loc[p].tx_ledger[i].transaction_type = "used"
                      /\ loc[p].tx_ledger[i].booking_id = NULL}
           committed == UnattachedEntries(loc[p].user)
       IN  \/ /\ own # {} \/ committed = {}
              /\ loc' = [loc EXCEPT ![p].tx_ledger =
                          [i \in 1..Len(@) |->
                             IF own # {} /\ i = CHOOSE m \in own : \A k \in own : k <= m
                             THEN [@[i] EXCEPT !.booking_id = OWN] ELSE @[i]]]
           \/ /\ committed # {}
              /\ loc' = [loc EXCEPT ![p].tx_patch =
                          CHOOSE m \in committed : \A k \in committed : k <= m]
    /\ pc' = [pc EXCEPT ![p] = "c_decr"]
    /\ UNCHANGED <<db, sessLock, subLock, sweep, clock, calls, sweeps, faults,
                   releases, restores>>

\* lines 208-213: UPDATE sessions SET available_slots = available_slots - $2
decrement_available_slots(p) ==
    /\ pc[p] = "c_decr"
    /\ LET s == loc[p].session_id IN
       /\ sessLock[s] \in {NOBODY, p}
       /\ sessLock' = [sessLock EXCEPT ![s] = p]
    /\ loc' = [loc EXCEPT ![p].tx_slots = slots_needed(loc[p].guest_count)]
    /\ pc' = [pc EXCEPT ![p] = "c_commit"]
    /\ UNCHANGED <<db, subLock, sweep, clock, calls, sweeps, faults, releases, restores>>

\* lines 216-219: tx.commit() makes every buffered write visible at once
Commit(p) ==
    /\ pc[p] = "c_commit"
    /\ LET id == Len(bookings) + 1
           u == loc[p].user
           s == loc[p].session_id
       IN  /\ bookings' = bookings \o loc[p].tx_booking
           /\ ticket_transactions' =
                 [i \in 1..Len(ticket_transactions) |->
                    IF i = loc[p].tx_patch
                    THEN [ticket_transactions[i] EXCEPT !.booking_id = id]
                    ELSE ticket_transactions[i]]
                 \o [i \in 1..Len(loc[p].tx_ledger) |->
                       IF loc[p].tx_ledger[i].booking_id = OWN
                       THEN [loc[p].tx_ledger[i] EXCEPT !.booking_id = id]
                       ELSE loc[p].tx_ledger[i]]
           /\ subscriptions' = [subscriptions EXCEPT ![u].tickets_remaining =
                                   @ + loc[p].tx_tickets]
           /\ sessions' = [sessions EXCEPT ![s].available_slots = @ - loc[p].tx_slots]
    /\ Return(p, "Ok")
    /\ ReleaseLocks(p)
    /\ UNCHANGED <<users, sweep, clock, calls, sweeps, faults, releases, restores>>

CreatePcs == {"c_lock", "c_dup", "c_sub", "c_deduct", "c_ledger", "c_config",
              "c_insert", "c_patch", "c_decr", "c_commit"}

\* A storage error in any statement of the transaction: `?` returns the error
\* and the dropped Transaction rolls back
CreateFault(p) ==
    /\ pc[p] \in CreatePcs
    /\ faults < MaxFaults
    /\ faults' = faults + 1
    /\ Return(p, "Database")
    /\ ReleaseLocks(p)
    /\ UNCHANGED <<db, sweep, clock, calls, sweeps, releases, restores>>

CreateStep(p) ==
    \/ find_by_id_for_update(p)
    \/ CreateChecks(p)
    \/ get_active_for_booking(p)
    \/ deduct_ticket(p)
    \/ CreateLedgerEntry(p)
    \/ ReadDiscount(p)
    \/ InsertBooking(p)
    \/ PatchLedgerEntry(p)
    \/ decrement_available_slots(p)
    \/ Commit(p)

\* the statements of the call with the config table holding one of values
CreateStepOver(p, values) ==
    \/ find_by_id_for_update(p)
    \/ CreateChecks(p)
    \/ get_active_for_booking(p)
    \/ deduct_ticket(p)
    \/ CreateLedgerEntry(p)
    \/ ReadDiscountFrom(p, values)
    \/ InsertBooking(p)
    \/ PatchLedgerEntry(p)
    \/ decrement_available_slots(p)
    \/ Commit(p)

\* ---------------------------------------------------------------------------
\* Shared reversal primitives, each one statement executed on the pool
\* ---------------------------------------------------------------------------

\* the restore matching no subscription row
restore_ticket_skipped(actor, user_id, booking_id) ==
    /\ subLock[user_id] = NOBODY
    /\ UNCHANGED subscriptions
    /\ restores' = [restores EXCEPT ![actor][booking_id] = @ + 1]

\* subscriptions::restore_ticket: UPDATE subscriptions SET tickets_remaining =
\* tickets_remaining + 1 WHERE id = $1 RETURNING tickets_remaining.
\* The UPDATE waits for the row lock of an open transaction.
restore_ticket(actor, user_id, booking_id) ==
    /\ subLock[user_id] = NOBODY
    /\ subscriptions' = [subscriptions EXCEPT ![user_id].tickets_remaining = @ + 1]
    /\ restores' = [restores EXCEPT ![actor][booking_id] = @ + 1]

\* ticket_transactions::create_with_pool(..., RESTORED, 1, new_balance, ...)
create_with_pool(user_id, booking_id, new_balance) ==
    ticket_transactions' = Append(ticket_transactions,
        [user |-> user_id, booking_id |-> booking_id, transaction_type |-> "restored",
         amount |-> 1, balance_after |-> new_balance])

\* an open admin transaction holds the row lock of booking id: update_booking
\* from its SELECT ... FOR UPDATE, delete_user from its UPDATE bookings
BookingRowLocked(id) ==
    \E q \in Procs :
        \/ /\ loc[q].op = "update_booking"
           /\ pc[q] \in {"ub_session", "ub_slots", "ub_update", "ub_commit"}
           /\ loc[q].booking_id = id
        \/ /\ loc[q].op = "delete_user"
           /\ pc[q] = "du_commit"
           /\ id \in loc[q].tx_cancelled

\* bookings::cancel_booking: UPDATE bookings SET cancelled_at = NOW(),
\* payment_status = 'cancelled' WHERE id = $1.  The UPDATE waits for the row
\* lock of an open transaction.
cancel_booking_row(booking_id) ==
    /\ ~BookingRowLocked(booking_id)
    /\ bookings' = [bookings EXCEPT ![booking_id].cancelled_at = now,
                                 ![booking_id].payment_status = "cancelled"]

\* sessions::increment_available_slots: UPDATE sessions SET available_slots =
\* available_slots + $2 WHERE id = $1
increment_available_slots(actor, session_id, count, booking_id) ==
    /\ sessLock[session_id] = NOBODY
    /\ sessions' = [sessions EXCEPT ![session_id].available_slots = @ + count]
    /\ releases' = [releases EXCEPT ![actor][booking_id] = @ + 1]

\* ---------------------------------------------------------------------------
\* cancel_booking (core/src/booking/cancel.rs)
\* ---------------------------------------------------------------------------

CancelReturn(p, res) ==
    /\ Return(p, res)
    /\ UNCHANGED <<db, sessLock, subLock, sweep, clock, calls, sweeps, faults,
                   releases, restores>>

BeginCancel(p, booking_id, user_id) ==
    /\ FreeSlot(p)
    /\ Authenticated(user_id)
    /\ calls < MaxCalls
    /\ calls' = calls + 1
    /\ pc' = [pc EXCEPT ![p] = "k_find"]
    /\ loc' = [loc EXCEPT ![p] = [IdleLoc EXCEPT !.op = "cancel", !.user = user_id,
                                     !.booking_id = booking_id]]
    /\ UNCHANGED <<db, sessLock, subLock, sweep, clock, sweeps, faults, releases, restores>>

\* the same checks without the already-cancelled check
CancelFindBookingAnyState(p) ==
    /\ pc[p] = "k_find"
    /\ LET id == loc[p].booking_id IN
       IF id \notin 1..Len(bookings) THEN CancelReturn(p, "NotFound")
       ELSE IF bookings[id].user_id # loc[p].user THEN CancelReturn(p, "Forbidden")
       ELSE /\ loc' = [loc EXCEPT ![p].booking = <<bookings[id]>>]
            /\ pc' = [pc EXCEPT ![p] = "k_session"]
            /\ UNCHANGED <<db, sessLock, subLock, sweep, clock, calls, sweeps, faults,
                           releases, restores>>

\* lines 22-35: bookings::find_by_id, ownership check, already-cancelled check
CancelFindBooking(p) ==
    /\ pc[p] = "k_find"
    /\ LET id == loc[p].booking_id IN
       IF id \notin 1..Len(bookings) THEN CancelReturn(p, "NotFound")
       ELSE IF bookings[id].user_id # loc[p].user THEN CancelReturn(p, "Forbidden")
       ELSE IF bookings[id].cancelled_at # NULL THEN CancelReturn(p, "BadRequest")
       ELSE /\ loc' = [loc EXCEPT ![p].booking = <<bookings[id]>>]
            /\ pc' = [pc EXCEPT ![p] = "k_session"]
            /\ UNCHANGED <<db, sessLock, subLock, sweep, clock, calls, sweeps, faults,
                           releases, restores>>

\* lines 38-41: sessions::find_by_id
CancelFindSession(p) ==
    /\ pc[p] = "k_session"
    /\ LET s == loc[p].booking[1].session_id IN
       IF s \notin SessionIds THEN CancelReturn(p, "NotFound")
       ELSE /\ loc' = [loc EXCEPT ![p].session = <<sessions[s]>>]
            /\ pc' = [pc EXCEPT ![p] = "k_issub"]
            /\ UNCHANGED <<db, sessLock, subLock, sweep, clock, calls, sweeps, faults,
                           releases, restores>>

\* the two windows exchanged
cancellation_hours_swapped(session, is_subscriber) ==
    IF is_subscriber
    THEN IF session.drop_in_cancellation_hours = NULL
         THEN DEFAULT_DROP_IN_CANCELLATION_HOURS
         ELSE session.drop_in_cancellation_hours
    ELSE IF session.subscriber_cancellation_hours = NULL
         THEN DEFAULT_SUBSCRIBER_CANCELLATION_HOURS
         ELSE session.subscriber_cancellation_hours

\* lines 49-55
cancellation_hours(session, is_subscriber) ==
    IF is_subscriber
    THEN IF session.subscriber_cancellation_hours = NULL
         THEN DEFAULT_SUBSCRIBER_CANCELLATION_HOURS
         ELSE session.subscriber_cancellation_hours
    ELSE IF session.drop_in_cancellation_hours = NULL
         THEN DEFAULT_DROP_IN_CANCELLATION_HOURS
         ELSE session.drop_in_cancellation_hours

\* lines 58-62
session_start(session) == session.date * MINUTES_PER_DAY + session.time

cancellation_deadline(session, is_subscriber) ==
    session_start(session) - cancellation_hours(session, is_subscriber) * MINUTES_PER_HOUR

\* lines 67-73: what the BadRequest message reports; num_hours() truncates
deadline_message(session, is_subscriber) ==
    [who |-> IF is_subscriber THEN "Subscribers" ELSE "Drop-in players",
     cancellation_hours |-> cancellation_hours(session, is_subscriber),
     hours_until_session |->
        Max(TruncDiv(session_start(session) - now, MINUTES_PER_HOUR), 0)]

\* lines 44-74: subscriptions::has_active_subscription, then the window check
CancelCheckWindow(p) ==
    /\ pc[p] = "k_issub"
    /\ LET is_subscriber == has_active_subscription(loc[p].user)
           session == loc[p].session[1]
       IN  IF now > cancellation_deadline(session, is_subscriber)
           THEN /\ ReturnWith(p, "BadRequest", deadline_message(session, is_subscriber))
                /\ UNCHANGED <<db, sessLock, subLock, sweep, clock, calls, sweeps,
                               faults, releases, restores>>
           ELSE /\ loc' = [loc EXCEPT ![p].is_subscriber = is_subscriber]
                /\ pc' = [pc EXCEPT ![p] = IF loc[p].booking[1].tickets_used > 0
                                           THEN "k_findsub" ELSE "k_cancel"]
                /\ UNCHANGED <<db, sessLock, subLock, sweep, clock, calls, sweeps,
                               faults, releases, restores>>

\* line 78: subscriptions::find_by_user_id (any status)
CancelFindSubscription(p) ==
    /\ pc[p] = "k_findsub"
    /\ pc' = [pc EXCEPT ![p] = IF subscriptions[loc[p].user].status # "absent"
                               THEN "k_restore" ELSE "k_cancel"]
    /\ UNCHANGED <<db, sessLock, subLock, loc, sweep, clock, calls, sweeps, faults,
                   releases, restores>>

\* line 80
CancelRestoreTicket(p) ==
    /\ pc[p] = "k_restore"
    /\ restore_ticket("cancel", loc[p].user, loc[p].booking_id)
    /\ loc' = [loc EXCEPT ![p].new_balance = subscriptions'[loc[p].user].tickets_remaining]
    /\ pc' = [pc EXCEPT ![p] = "k_ledger"]
    /\ UNCHANGED <<sessions, bookings, ticket_transactions, users, sessLock, subLock, sweep,
                   clock, calls, sweeps, faults, releases>>

\* lines 82-93
CancelLogRestore(p) ==
    /\ pc[p] = "k_ledger"
    /\ create_with_pool(loc[p].user, loc[p].booking_id, loc[p].new_balance)
    /\ pc' = [pc EXCEPT ![p] = "k_cancel"]
    /\ UNCHANGED <<sessions, bookings, subscriptions, users, sessLock, subLock, loc, sweep,
                   clock, calls, sweeps, faults, releases, restores>>

\* lines 99-101
CancelMarkCancelled(p) ==
    /\ pc[p] = "k_cancel"
    /\ cancel_booking_row(loc[p].booking_id)
    /\ pc' = [pc EXCEPT ![p] = "k_incr"]
    /\ UNCHANGED <<sessions, subscriptions, ticket_transactions, users, sessLock, subLock, loc,
                   sweep, clock, calls, sweeps, faults, releases, restores>>

\* lines 104-112
CancelReturnSlots(p) ==
    /\ pc[p] = "k_incr"
    /\ increment_available_slots("cancel", loc[p].booking[1].session_id,
                                 1 + loc[p].booking[1].guest_count, loc[p].booking_id)
    /\ Return(p, "Ok")
    /\ UNCHANGED <<bookings, subscriptions, ticket_transactions, users, sessLock, subLock, sweep,
                   clock, calls, sweeps, faults, restores>>

\* A storage error in a statement whose error is propagated with `?`
CancelFaultAbort(p) ==
    /\ pc[p] \in {"k_find", "k_session", "k_issub", "k_cancel", "k_incr"}
    /\ faults < MaxFaults
    /\ faults' = faults + 1
    /\ Return(p, "Internal")
    /\ UNCHANGED <<db, sessLock, subLock, sweep, clock, calls, sweeps, releases, restores>>

\* A storage error in a statement whose error is dropped (`if let Ok`, `let _ =`)
CancelFaultIgnored(p) ==
    /\ pc[p] \in {"k_findsub", "k_restore", "k_ledger"}
    /\ faults < MaxFaults
    /\ faults' = faults + 1
    /\ pc' = [pc EXCEPT ![p] = "k_cancel"]
    /\ UNCHANGED <<db, sessLock, subLock, loc, sweep, clock, calls, sweeps,
                   releases, restores>>

CancelStep(p) ==
    \/ CancelFindBooking(p)
    \/ CancelFindSession(p)
    \/ CancelCheckWindow(p)
    \/ CancelFindSubscription(p)
    \/ CancelRestoreTicket(p)
    \/ CancelLogRestore(p)
    \/ CancelMarkCancelled(p)
    \/ CancelReturnSlots(p)

\* ---------------------------------------------------------------------------
\* release_unpaid_bookings (jobs/src/jobs/release_unpaid.rs)
\* ---------------------------------------------------------------------------

\* line 17: the scheduler starts a sweep; now = Utc::now()
StartSweep(r) ==
    /\ sweep[r].pc = "idle"
    /\ sweeps < MaxSweeps
    /\ sweeps' = sweeps + 1
    /\ sweep' = [sweep EXCEPT ![r] = [IdleSweep EXCEPT !.pc = "r_query", !.before = now]]
    /\ UNCHANGED <<db, sessLock, subLock, pc, loc, clock, calls, faults, releases, restores>>

\* the snapshot of a selected row the loop works on
Snapshot(i) == [id |-> i, user_id |-> bookings[i].user_id,
                session_id |-> bookings[i].session_id,
                guest_count |-> bookings[i].guest_count,
                tickets_used |-> bookings[i].tickets_used]

FirstStage(b) == IF b.tickets_used > 0 THEN "r_findsub" ELSE "r_cancel"

\* for booking in expired_bookings: the query has no ORDER BY, any order can occur
NextBooking(r) ==
    IF sweep[r].todo = {}
    THEN sweep' = [sweep EXCEPT ![r] = [IdleSweep EXCEPT !.result = "Ok"]]
    ELSE \E b \in sweep[r].todo :
            sweep' = [sweep EXCEPT ![r].todo = @ \ {b}, ![r].cur = <<b>>,
                                   ![r].new_balance = NULL, ![r].pc = FirstStage(b)]

\* lines 20-31
SweepQuery(r) ==
    /\ sweep[r].pc = "r_query"
    /\ LET expired_bookings == {Snapshot(i) : i \in find_unpaid_expired_bookings(sweep[r].before)}
       IN  IF expired_bookings = {}
           THEN sweep' = [sweep EXCEPT ![r] = [IdleSweep EXCEPT !.result = "Ok"]]
           ELSE \E b \in expired_bookings :
                   sweep' = [sweep EXCEPT ![r].todo = expired_bookings \ {b},
                                          ![r].cur = <<b>>, ![r].pc = FirstStage(b)]
    /\ UNCHANGED <<db, sessLock, subLock, pc, loc, clock, calls, sweeps, faults,
                   releases, restores>>

\* lines 41-43
SweepFindSubscription(r) ==
    /\ sweep[r].pc = "r_findsub"
    /\ sweep' = [sweep EXCEPT ![r].pc =
                    IF subscriptions[sweep[r].cur[1].user_id].status # "absent"
                    THEN "r_restore" ELSE "r_cancel"]
    /\ UNCHANGED <<db, sessLock, subLock, pc, loc, clock, calls, sweeps, faults,
                   releases, restores>>

\* line 44
SweepRestoreTicket(r) ==
    /\ sweep[r].pc = "r_restore"
    /\ LET b == sweep[r].cur[1] IN
       /\ restore_ticket("reaper", b.user_id, b.id)
       /\ sweep' = [sweep EXCEPT ![r].pc = "r_ledger",
                       ![r].new_balance = subscriptions'[b.user_id].tickets_remaining]
    /\ UNCHANGED <<sessions, bookings, ticket_transactions, users, sessLock, subLock, pc, loc,
                   clock, calls, sweeps, faults, releases>>

\* lines 47-58
SweepLogRestore(r) ==
    /\ sweep[r].pc = "r_ledger"
    /\ LET b == sweep[r].cur[1] IN
       create_with_pool(b.user_id, b.id, sweep[r].new_balance)
    /\ sweep' = [sweep EXCEPT ![r].pc = "r_cancel"]
    /\ UNCHANGED <<sessions, bookings, subscriptions, users, sessLock, subLock, pc, loc,
                   clock, calls, sweeps, faults, releases, restores>>

\* line 78
SweepMarkCancelled(r) ==
    /\ sweep[r].pc = "r_cancel"
    /\ cancel_booking_row(sweep[r].cur[1].id)
    /\ sweep' = [sweep EXCEPT ![r].pc = "r_incr"]
    /\ UNCHANGED <<sessions, subscriptions, ticket_transactions, users, sessLock, subLock, pc,
                   loc, clock, calls, sweeps, faults, releases, restores>>

\* lines 81-101
SweepReturnSlots(r) ==
    /\ sweep[r].pc = "r_incr"
    /\ LET b == sweep[r].cur[1] IN
       increment_available_slots("reaper", b.session_id, 1 + b.guest_count, b.id)
    /\ NextBooking(r)
    /\ UNCHANGED <<bookings, subscriptions, ticket_transactions, users, sessLock, subLock, pc,
                   loc, clock, calls, sweeps, faults, restores>>

\* line 20: the query fails and `?` ends the sweep
SweepFaultQuery(r) ==
    /\ sweep[r].pc = "r_query"
    /\ faults < MaxFaults
    /\ faults' = faults + 1
    /\ sweep' = [sweep EXCEPT ![r] = [IdleSweep EXCEPT !.result = "Err"]]
    /\ UNCHANGED <<db, sessLock, subLock, pc, loc, clock, calls, sweeps, releases, restores>>

\* lines 41-74: a failed lookup, restore or ledger insert is dropped or logged
\* and the loop body goes on to cancel the booking
SweepFaultIgnored(r) ==
    /\ sweep[r].pc \in {"r_findsub", "r_restore", "r_ledger"}
    /\ faults < MaxFaults
    /\ faults' = faults + 1
    /\ sweep' = [sweep EXCEPT ![r].pc = "r_cancel"]
    /\ UNCHANGED <<db, sessLock, subLock, pc, loc, clock, calls, sweeps, releases, restores>>

\* a failed cancel or slot release ending the sweep with the error
SweepFaultAborts(r) ==
    /\ sweep[r].pc \in {"r_cancel", "r_incr"}
    /\ faults < MaxFaults
    /\ faults' = faults + 1
    /\ sweep' = [sweep EXCEPT ![r] = [IdleSweep EXCEPT !.result = "Err"]]
    /\ UNCHANGED <<db, sessLock, subLock, pc, loc, clock, calls, sweeps, releases, restores>>

\* lines 83-109: a failed cancel or slot release is logged and the loop goes
\* on with the next booking
SweepFaultLogged(r) ==
    /\ sweep[r].pc \in {"r_cancel", "r_incr"}
    /\ faults < MaxFaults
    /\ faults' = faults + 1
    /\ NextBooking(r)
    /\ UNCHANGED <<db, sessLock, subLock, pc, loc, clock, calls, sweeps, releases, restores>>

SweepStep(r) ==
    \/ SweepQuery(r)
    \/ SweepFindSubscription(r)
    \/ SweepRestoreTicket(r)
    \/ SweepLogRestore(r)
    \/ SweepMarkCancelled(r)
    \/ SweepReturnSlots(r)

Tick ==
    /\ clock < Len(Instants)
    /\ clock' = clock + 1
    /\ UNCHANGED <<db, sessLock, subLock, pc, loc, sweep, calls, sweeps, faults,
                   releases, restores>>

NextCreate ==
    \/ \E p \in Procs, r \in CreateRequests : BeginCreate(p, r[1], r[2], r[3])
    \/ \E p \in Procs : CreateStep(p)
    \/ \E p \in Procs : CreateFault(p)
    \/ Tick

SpecCreate == Init /\ [][NextCreate]_vars

\* requests the API layer passes to cancel_booking: <<booking, user>>
CancelRequests == BookingIds \X Users

Next ==
    \/ \E p \in Procs, r \in CreateRequests : BeginCreate(p, r[1], r[2], r[3])
    \/ \E p \in Procs : CreateStep(p)
    \/ \E p \in Procs : CreateFault(p)
    \/ \E p \in Procs, r \in CancelRequests : BeginCancel(p, r[1], r[2])
    \/ \E p \in Procs : CancelStep(p)
    \/ \E p \in Procs : CancelFaultAbort(p)
    \/ \E p \in Procs : CancelFaultIgnored(p)
    \/ \E r \in Reapers : StartSweep(r)
    \/ \E r \in Reapers : SweepStep(r)
    \/ \E r \in Reapers : SweepFaultQuery(r)
    \/ \E r \in Reapers : SweepFaultIgnored(r)
    \/ \E r \in Reapers : SweepFaultLogged(r)
    \/ Tick

Spec == Init /\ [][Next]_vars

NextNoFault ==
    \/ \E p \in Procs, r \in CreateRequests : BeginCreate(p, r[1], r[2], r[3])
    \/ \E p \in Procs : CreateStep(p)
    \/ \E p \in Procs, r \in CancelRequests : BeginCancel(p, r[1], r[2])
    \/ \E p \in Procs : CancelStep(p)
    \/ \E r \in Reapers : StartSweep(r)
    \/ \E r \in Reapers : SweepStep(r)
    \/ Tick

\* every handler runs without storage errors
SpecNoFault == Init /\ [][NextNoFault]_vars

NextReaper ==
    \/ \E p \in Procs, r \in CreateRequests : BeginCreate(p, r[1], r[2], r[3])
    \/ \E p \in Procs : CreateStep(p)
    \/ \E r \in Reapers : StartSweep(r)
    \/ \E r \in Reapers : SweepStep(r)
    \/ \E r \in Reapers : SweepFaultQuery(r)
    \/ \E r \in Reapers : SweepFaultIgnored(r)
    \/ \E r \in Reapers : SweepFaultLogged(r)
    \/ Tick

\* bookings are created and only the reaper cancels them; its statements may fail
SpecReaper == Init /\ [][NextReaper]_vars

\* subscriptions::mark_expired (handle_subscription_deleted): UPDATE
\* subscriptions SET status = 'expired'; waits for the row lock
mark_expired(u) ==
    /\ subscriptions[u].status = "active"
    /\ subLock[u] = NOBODY
    /\ subscriptions' = [subscriptions EXCEPT ![u].status = "expired"]
    /\ UNCHANGED <<sessions, bookings, ticket_transactions, users, sessLock, subLock, pc, loc,
                   sweep, clock, calls, sweeps, faults, releases, restores>>

NextLifecycle ==
    \/ NextNoFault
    \/ \E u \in Users : mark_expired(u)

\* every handler runs without storage errors and a subscription can end
SpecLifecycle == Init /\ [][NextLifecycle]_vars

\* ---- the jobs process over time ----

\* jobs/src/main.rs: the cron job "0 * * * * *" fires for as long as the process
\* runs; these runs are not counted
StartSweepScheduled(r) ==
    /\ sweep[r].pc = "idle"
    /\ sweep' = [sweep EXCEPT ![r] = [IdleSweep EXCEPT !.pc = "r_query", !.before = now]]
    /\ UNCHANGED <<db, sessLock, subLock, pc, loc, clock, calls, sweeps, faults,
                   releases, restores>>

\* the jobs process is stopped at any point, also in the middle of a sweep;
\* everything it held in memory is lost.  Stops count as failures.
JobsStop(r) ==
    /\ sweep[r].pc # "stopped"
    /\ faults < MaxFaults
    /\ faults' = faults + 1
    /\ sweep' = [sweep EXCEPT ![r] = [IdleSweep EXCEPT !.pc = "stopped"]]
    /\ UNCHANGED <<db, sessLock, subLock, pc, loc, clock, calls, sweeps, releases, restores>>

\* jobs/src/main.rs main: a new process builds its scheduler from nothing but
\* the database pool
JobsStart(r) ==
    /\ sweep[r].pc = "stopped"
    /\ sweep' = [sweep EXCEPT ![r] = IdleSweep]
    /\ UNCHANGED <<db, sessLock, subLock, pc, loc, clock, calls, sweeps, faults,
                   releases, restores>>

NextLive ==
    \/ \E p \in Procs, r \in CreateRequests : BeginCreate(p, r[1], r[2], r[3])
    \/ \E p \in Procs : CreateStep(p)
    \/ \E r \in Reapers : StartSweepScheduled(r)
    \/ \E r \in Reapers : SweepStep(r)
    \/ \E r \in Reapers : SweepFaultQuery(r)
    \/ \E r \in Reapers : SweepFaultIgnored(r)
    \/ \E r \in Reapers : SweepFaultLogged(r)
    \/ \E r \in Reapers : JobsStop(r)
    \/ \E r \in Reapers : JobsStart(r)
    \/ Tick

\* Sweeps keep running: a stopped jobs process is started again, the scheduler
\* keeps firing, a running sweep and an open transaction go on to their next
\* statement.  Failures and stops are finitely many.
SpecLive ==
    /\ Init
    /\ [][NextLive]_vars
    /\ \A r \in Reapers : /\ WF_vars(JobsStart(r))
                           /\ WF_vars(StartSweepScheduled(r))
                           /\ WF_vars(SweepStep(r))
    /\ \A p \in Procs : WF_vars(CreateStep(p))

\* ---- payment_intent.succeeded webhook (integrations/src/stripe/webhooks.rs) ----

\* ids of the PaymentIntents the gateway reports
PaymentIntents == {1, 2}

\* deliveries the gateway can make: <<booking id in the metadata, PaymentIntent id>>
WebhookEvents == BookingIds \X PaymentIntents

\* SQL COALESCE of two values
COALESCE(a, b) == IF a # NULL THEN a ELSE b

\* bookings::update_payment_status: UPDATE bookings SET payment_status = $2,
\* stripe_payment_id = COALESCE($3, stripe_payment_id) WHERE id = $1
update_payment_status(id, status, stripe_payment_id) ==
    /\ ~BookingRowLocked(id)
    /\ bookings' = [bookings EXCEPT
                       ![id].payment_status = status,
                       ![id].stripe_payment_id = COALESCE(stripe_payment_id, @)]

\* api/src/routes/payments.rs stripe_webhook: a delivery arrives at the API
\* server; deliveries are not counted as calls
BeginWebhook(p, booking_id, payment_intent_id) ==
    /\ FreeSlot(p)
    /\ pc' = [pc EXCEPT ![p] = "w_update"]
    /\ loc' = [loc EXCEPT ![p] = [IdleLoc EXCEPT !.op = "webhook",
                                     !.booking_id = booking_id,
                                     !.detail = <<payment_intent_id>>]]
    /\ UNCHANGED <<db, sessLock, subLock, sweep, clock, calls, sweeps, faults,
                   releases, restores>>

\* the confirmation also taking the booking's slots from the session
handle_payment_succeeded_reserving(p) ==
    /\ pc[p] = "w_update"
    /\ loc[p].booking_id \in 1..Len(bookings)
    /\ LET b == bookings[loc[p].booking_id] IN
       /\ sessLock[b.session_id] = NOBODY
       /\ sessions' = [sessions EXCEPT ![b.session_id].available_slots =
                                            @ - (1 + b.guest_count)]
    /\ update_payment_status(loc[p].booking_id, "confirmed", loc[p].detail[1])
    /\ ReturnWith(p, "Ok", loc[p].detail)
    /\ UNCHANGED <<subscriptions, ticket_transactions, users, sessLock, subLock, sweep, clock,
                   calls, sweeps, faults, releases, restores>>

\* handle_payment_succeeded: the booking named in the metadata is set to
\* confirmed with the PaymentIntent id; fetch_one fails when no row has the id
handle_payment_succeeded(p) ==
    /\ pc[p] = "w_update"
    /\ IF loc[p].booking_id \in 1..Len(bookings)
       THEN /\ update_payment_status(loc[p].booking_id, "confirmed", loc[p].detail[1])
            /\ ReturnWith(p, "Ok", loc[p].detail)
       ELSE /\ ReturnWith(p, "Internal", loc[p].detail)
            /\ UNCHANGED bookings
    /\ UNCHANGED <<sessions, subscriptions, ticket_transactions, users, sessLock, subLock, sweep,
                   clock, calls, sweeps, faults, releases, restores>>

NextPayment ==
    \/ \E p \in Procs, r \in CreateRequests : BeginCreate(p, r[1], r[2], r[3])
    \/ \E p \in Procs : CreateStep(p)
    \/ Tick
    \/ \E p \in Procs, e \in WebhookEvents : BeginWebhook(p, e[1], e[2])
    \/ \E p \in Procs : handle_payment_succeeded(p)

\* bookings are created and the gateway reports payments; no storage errors
SpecPayment == Init /\ [][NextPayment]_vars

\* bookings with an amount owed: a drop-in booking, a ticket booking with a
\* paying guest and a subscriber's booking at the out-of-ticket discount
GatewayRequests == {<<"u2", "s2", 0>>, <<"u1", "s1", 1>>, <<"u1", "s2", 0>>}

NextGateway ==
    \/ \E p \in Procs, r \in GatewayRequests : BeginCreate(p, r[1], r[2], r[3])
    \/ \E p \in Procs : CreateStep(p)
    \/ \E p \in Procs, r \in CancelRequests : BeginCancel(p, r[1], r[2])
    \/ \E p \in Procs : CancelStep(p)
    \/ \E r \in Reapers : StartSweep(r)
    \/ \E r \in Reapers : SweepStep(r)
    \/ \E p \in Procs, e \in WebhookEvents : BeginWebhook(p, e[1], e[2])
    \/ \E p \in Procs : handle_payment_succeeded(p)
    \/ Tick

\* bookings are created, paid through the gateway, cancelled by their owner or
\* reaped; no storage errors
SpecGateway == Init /\ [][NextGateway]_vars

\* ---------------------------------------------------------------------------
\* Admin operations (api/src/routes/admin.rs, api/src/routes/sessions.rs,
\* db/src/queries/admin.rs, db/src/queries/sessions.rs, db/src/queries/subscriptions.rs)
\* ---------------------------------------------------------------------------

\* amounts an admin grants or revokes (AdminGrantTicketsRequest.amount is
\* validated to lie in 1..100)
TicketAmounts == {1, 2}

\* Return from an admin handler that holds no transaction
AdminReturn(p, res) ==
    /\ Return(p, res)
    /\ UNCHANGED <<db, sessLock, subLock, sweep, clock, calls, sweeps, faults,
                   releases, restores>>

\* a request of an admin arrives: the handler starts at statement first
BeginAdmin(p, op, first, user_id, session_id, booking_id, amount) ==
    /\ FreeSlot(p)
    /\ calls < MaxCalls
    /\ calls' = calls + 1
    /\ pc' = [pc EXCEPT ![p] = first]
    /\ loc' = [loc EXCEPT ![p] = [IdleLoc EXCEPT !.op = op, !.user = user_id,
                                     !.session_id = session_id,
                                     !.booking_id = booking_id,
                                     !.amount = amount, !.tx_started = now]]
    /\ UNCHANGED <<db, sessLock, subLock, sweep, clock, sweeps, faults, releases, restores>>

\* ---- grant_tickets (routes/admin.rs) ----
BeginGrant(p, user_id, amount) ==
    BeginAdmin(p, "grant_tickets", "g_find", user_id, "", 0, amount)

\* subscriptions::find_by_user_id: BadRequest when the user has no subscription
GrantFindSubscription(p) ==
    /\ pc[p] = "g_find"
    /\ IF subscriptions[loc[p].user].status = "absent"
       THEN AdminReturn(p, "BadRequest")
       ELSE /\ pc' = [pc EXCEPT ![p] = "g_add"]
            /\ UNCHANGED <<db, sessLock, subLock, loc, sweep, clock, calls, sweeps,
                           faults, releases, restores>>

\* subscriptions::add_bonus_tickets: UPDATE subscriptions SET tickets_remaining =
\* tickets_remaining + $2 WHERE id = $1 RETURNING tickets_remaining
add_bonus_tickets(p) ==
    /\ pc[p] = "g_add"
    /\ LET u == loc[p].user IN
       /\ subLock[u] = NOBODY
       /\ subscriptions' = [subscriptions EXCEPT ![u].tickets_remaining = @ + loc[p].amount]
       /\ loc' = [loc EXCEPT ![p].new_balance =
                                subscriptions[u].tickets_remaining + loc[p].amount]
    /\ pc' = [pc EXCEPT ![p] = "g_ledger"]
    /\ UNCHANGED <<sessions, bookings, ticket_transactions, users, sessLock, subLock, sweep,
                   clock, calls, sweeps, faults, releases, restores>>

\* ticket_transactions::create_with_pool(.., BONUS_MANUAL, amount, new_balance, ..)
GrantLogTransaction(p) ==
    /\ pc[p] = "g_ledger"
    /\ ticket_transactions' = Append(ticket_transactions,
          [user |-> loc[p].user, booking_id |-> NULL, transaction_type |-> "bonus_manual",
           amount |-> loc[p].amount, balance_after |-> loc[p].new_balance])
    /\ Return(p, "Ok")
    /\ UNCHANGED <<sessions, bookings, subscriptions, users, sessLock, subLock, sweep,
                   clock, calls, sweeps, faults, releases, restores>>

\* ---- revoke_tickets (routes/admin.rs) ----
BeginRevoke(p, user_id, amount) ==
    BeginAdmin(p, "revoke_tickets", "v_find", user_id, "", 0, amount)

RevokeFindSubscription(p) ==
    /\ pc[p] = "v_find"
    /\ IF subscriptions[loc[p].user].status = "absent"
       THEN AdminReturn(p, "BadRequest")
       ELSE /\ pc' = [pc EXCEPT ![p] = "v_revoke"]
            /\ UNCHANGED <<db, sessLock, subLock, loc, sweep, clock, calls, sweeps,
                           faults, releases, restores>>

\* subscriptions::revoke_tickets: UPDATE subscriptions SET tickets_remaining =
\* GREATEST(0, tickets_remaining - $2) WHERE id = $1 RETURNING tickets_remaining
revoke_tickets(p) ==
    /\ pc[p] = "v_revoke"
    /\ LET u == loc[p].user
           new_balance == Max(0, subscriptions[u].tickets_remaining - loc[p].amount)
       IN  /\ subLock[u] = NOBODY
           /\ subscriptions' = [subscriptions EXCEPT ![u].tickets_remaining = new_balance]
           /\ loc' = [loc EXCEPT ![p].new_balance = new_balance]
    /\ pc' = [pc EXCEPT ![p] = "v_ledger"]
    /\ UNCHANGED <<sessions, bookings, ticket_transactions, users, sessLock, subLock, sweep,
                   clock, calls, sweeps, faults, releases, restores>>

\* ticket_transactions::create_with_pool(.., REVOKED, -request.amount, new_balance, ..)
RevokeLogTransaction(p) ==
    /\ pc[p] = "v_ledger"
    /\ ticket_transactions' = Append(ticket_transactions,
          [user |-> loc[p].user, booking_id |-> NULL, transaction_type |-> "revoked",
           amount |-> -loc[p].amount, balance_after |-> loc[p].new_balance])
    /\ Return(p, "Ok")
    /\ UNCHANGED <<sessions, bookings, subscriptions, users, sessLock, subLock, sweep,
                   clock, calls, sweeps, faults, releases, restores>>

\* ---- update_session (routes/sessions.rs, queries/sessions.rs) ----
\* the route passes courts = 1 and max_players_per_court = payload.max_slots;
\* the payload's other columns carry the values the row holds
BeginUpdateSession(p, id, max_slots) ==
    BeginAdmin(p, "update_session", "us_find", "", id, 0, max_slots)

\* routes/sessions.rs: sessions::find_by_id for the permission check
UpdateSessionFind(p) ==
    /\ pc[p] = "us_find"
    /\ IF loc[p].session_id \notin SessionIds
       THEN AdminReturn(p, "NotFound")
       ELSE /\ pc' = [pc EXCEPT ![p] = "us_current"]
            /\ UNCHANGED <<db, sessLock, subLock, loc, sweep, clock, calls, sweeps,
                           faults, releases, restores>>

\* queries/sessions.rs: let current = find_by_id(pool, id)
UpdateSessionCurrent(p) ==
    /\ pc[p] = "us_current"
    /\ loc' = [loc EXCEPT ![p].session = <<sessions[loc[p].session_id]>>]
    /\ pc' = [pc EXCEPT ![p] = "us_write"]
    /\ UNCHANGED <<db, sessLock, subLock, sweep, clock, calls, sweeps, faults,
                   releases, restores>>

\* the route's constant for courts
ROUTE_COURTS == 1

\* queries/sessions.rs: total_slots and available_slots are computed from the
\* row read before and written by UPDATE sessions SET total_slots = $8,
\* available_slots = $9 WHERE id = $1
update_session(p) ==
    /\ pc[p] = "us_write"
    /\ LET id == loc[p].session_id
           current == loc[p].session[1]
           new_total_slots == ROUTE_COURTS * loc[p].amount
           booked_slots == current.total_slots - current.available_slots
           new_available_slots == Max(new_total_slots - booked_slots, 0)
       IN  /\ sessLock[id] = NOBODY
           /\ sessions' = [sessions EXCEPT ![id].courts = ROUTE_COURTS,
                                           ![id].max_players_per_court = loc[p].amount,
                                           ![id].total_slots = new_total_slots,
                                           ![id].available_slots = new_available_slots]
    /\ Return(p, "Ok")
    /\ UNCHANGED <<bookings, subscriptions, ticket_transactions, users, sessLock, subLock,
                   sweep, clock, calls, sweeps, faults, releases, restores>>

\* ---- update_booking (routes/admin.rs, queries/admin.rs) ----
BeginUpdateBooking(p, booking_id, guest_count) ==
    BeginAdmin(p, "update_booking", "ub_booking", "", "", booking_id, guest_count)

\* current_guest_count - new_guest_count
slot_diff(p) == loc[p].booking[1].guest_count - loc[p].amount

\* SELECT guest_count, session_id FROM bookings WHERE id = $1 FOR UPDATE
UpdateBookingLock(p) ==
    /\ pc[p] = "ub_booking"
    /\ LET id == loc[p].booking_id IN
       IF id \notin 1..Len(bookings)
       THEN Rollback(p, "NotFound")
       ELSE /\ ~BookingRowLocked(id)
            /\ loc' = [loc EXCEPT ![p].booking = <<bookings[id]>>]
            /\ pc' = [pc EXCEPT ![p] =
                        IF bookings[id].guest_count - loc[p].amount # 0
                        THEN "ub_session" ELSE "ub_update"]
            /\ UNCHANGED <<db, sessLock, subLock, sweep, clock, calls, sweeps, faults,
                           releases, restores>>

\* SELECT available_slots FROM sessions WHERE id = $1 FOR UPDATE, and the check
\* that the slots asked for are available
UpdateBookingLockSession(p) ==
    /\ pc[p] = "ub_session"
    /\ LET s == loc[p].booking[1].session_id IN
       /\ sessLock[s] = NOBODY
       /\ IF slot_diff(p) < 0 /\ sessions[s].available_slots < -slot_diff(p)
          THEN Rollback(p, "BadRequest")
          ELSE /\ sessLock' = [sessLock EXCEPT ![s] = p]
               /\ pc' = [pc EXCEPT ![p] = "ub_slots"]
               /\ UNCHANGED <<db, subLock, loc, sweep, clock, calls, sweeps, faults,
                              releases, restores>>

\* UPDATE sessions SET available_slots = available_slots + $1 WHERE id = $2
UpdateBookingSlots(p) ==
    /\ pc[p] = "ub_slots"
    /\ loc' = [loc EXCEPT ![p].tx_slots = -slot_diff(p)]
    /\ pc' = [pc EXCEPT ![p] = "ub_update"]
    /\ UNCHANGED <<db, sessLock, subLock, sweep, clock, calls, sweeps, faults,
                   releases, restores>>

\* UPDATE bookings SET updated_at = NOW(), guest_count = $2 WHERE id = $1
UpdateBookingRow(p) ==
    /\ pc[p] = "ub_update"
    /\ loc' = [loc EXCEPT ![p].tx_guest_count = loc[p].amount]
    /\ pc' = [pc EXCEPT ![p] = "ub_commit"]
    /\ UNCHANGED <<db, sessLock, subLock, sweep, clock, calls, sweeps, faults,
                   releases, restores>>

\* tx.commit()
UpdateBookingCommit(p) ==
    /\ pc[p] = "ub_commit"
    /\ LET id == loc[p].booking_id
           s == loc[p].booking[1].session_id
       IN  /\ bookings' = [bookings EXCEPT ![id].guest_count = loc[p].tx_guest_count]
           /\ sessions' = [sessions EXCEPT ![s].available_slots = @ - loc[p].tx_slots]
    /\ Return(p, "Ok")
    /\ ReleaseLocks(p)
    /\ UNCHANGED <<subscriptions, ticket_transactions, users, sweep, clock, calls, sweeps,
                   faults, releases, restores>>

\* ---- delete_user (routes/admin.rs, queries/admin.rs) ----
\* the users of the model organise no session, so UPDATE sessions SET cancelled
\* = true WHERE organizer_id = $1 matches no row
BeginDeleteUser(p, user_id) ==
    BeginAdmin(p, "delete_user", "du_check", user_id, "", 0, NULL)

\* SELECT id FROM users WHERE id = $1 AND deleted_at IS NULL
DeleteUserCheck(p) ==
    /\ pc[p] = "du_check"
    /\ IF users[loc[p].user].deleted_at # NULL
       THEN Rollback(p, "NotFound")
       ELSE /\ pc' = [pc EXCEPT ![p] = "du_select"]
            /\ UNCHANGED <<db, sessLock, subLock, loc, sweep, clock, calls, sweeps,
                           faults, releases, restores>>

\* the rows of a query over bookings, in id order
RECURSIVE RowsOf(_, _)
RowsOf(ids, from) ==
    IF from > Len(bookings) THEN <<>>
    ELSE (IF from \in ids
          THEN <<[id |-> from, guest_count |-> bookings[from].guest_count,
                  session_id |-> bookings[from].session_id]>>
          ELSE <<>>) \o RowsOf(ids, from + 1)

\* SELECT id, guest_count, session_id FROM bookings WHERE user_id = $1 AND
\* payment_status = 'pending' AND cancelled_at IS NULL
DeleteUserSelect(p) ==
    /\ pc[p] = "du_select"
    /\ LET pending_bookings ==
              RowsOf({i \in 1..Len(bookings) :
                          /\ bookings[i].user_id = loc[p].user
                          /\ bookings[i].payment_status = "pending"
                          /\ bookings[i].cancelled_at = NULL}, 1)
       IN  /\ loc' = [loc EXCEPT ![p].todo = pending_bookings]
           /\ pc' = [pc EXCEPT ![p] = IF pending_bookings = <<>> THEN "du_cancel"
                                                                ELSE "du_release"]
    /\ UNCHANGED <<db, sessLock, subLock, sweep, clock, calls, sweeps, faults,
                   releases, restores>>

\* one turn of the loop: UPDATE sessions SET available_slots = available_slots
\* + $1 WHERE id = $2, inside the transaction
DeleteUserRelease(p) ==
    /\ pc[p] = "du_release"
    /\ LET b == Head(loc[p].todo)
           slots_to_release == 1 + b.guest_count
       IN  /\ sessLock[b.session_id] \in {NOBODY, p}
           /\ sessLock' = [sessLock EXCEPT ![b.session_id] = p]
           /\ loc' = [loc EXCEPT ![p].tx_release[b.session_id] = @ + slots_to_release,
                                 ![p].todo = Tail(@)]
           /\ pc' = [pc EXCEPT ![p] = IF Tail(loc[p].todo) = <<>> THEN "du_cancel"
                                                                  ELSE "du_release"]
    /\ UNCHANGED <<db, subLock, sweep, clock, calls, sweeps, faults, releases, restores>>

\* UPDATE bookings SET payment_status = 'cancelled', cancelled_at = NOW() WHERE
\* user_id = $1 AND payment_status = 'pending'
DeleteUserCancel(p) ==
    /\ pc[p] = "du_cancel"
    /\ LET matched == {i \in 1..Len(bookings) :
                          /\ bookings[i].user_id = loc[p].user
                          /\ bookings[i].payment_status = "pending"}
       IN  /\ \A i \in matched : ~BookingRowLocked(i)
           /\ loc' = [loc EXCEPT ![p].tx_cancelled = matched]
    /\ pc' = [pc EXCEPT ![p] = "du_commit"]
    /\ UNCHANGED <<db, sessLock, subLock, sweep, clock, calls, sweeps, faults,
                   releases, restores>>

\* UPDATE users SET deleted_at = NOW(), .. and tx.commit(); NOW() is the time
\* at which the transaction started
DeleteUserCommit(p) ==
    /\ pc[p] = "du_commit"
    /\ sessions' = [s \in SessionIds |->
                      [sessions[s] EXCEPT !.available_slots = @ + loc[p].tx_release[s]]]
    /\ bookings' = [i \in 1..Len(bookings) |->
                      IF i \in loc[p].tx_cancelled
                      THEN [bookings[i] EXCEPT !.payment_status = "cancelled",
                                               !.cancelled_at = loc[p].tx_started]
                      ELSE bookings[i]]
    /\ users' = [users EXCEPT ![loc[p].user].deleted_at = loc[p].tx_started]
    /\ Return(p, "Ok")
    /\ ReleaseLocks(p)
    /\ UNCHANGED <<subscriptions, ticket_transactions, sweep, clock, calls, sweeps,
                   faults, releases, restores>>

AdminStep(p) ==
    \/ GrantFindSubscription(p)
    \/ add_bonus_tickets(p)
    \/ GrantLogTransaction(p)
    \/ RevokeFindSubscription(p)
    \/ revoke_tickets(p)
    \/ RevokeLogTransaction(p)
    \/ UpdateSessionFind(p)
    \/ UpdateSessionCurrent(p)
    \/ update_session(p)
    \/ UpdateBookingLock(p)
    \/ UpdateBookingLockSession(p)
    \/ UpdateBookingSlots(p)
    \/ UpdateBookingRow(p)
    \/ UpdateBookingCommit(p)
    \/ DeleteUserCheck(p)
    \/ DeleteUserSelect(p)
    \/ DeleteUserRelease(p)
    \/ DeleteUserCancel(p)
    \/ DeleteUserCommit(p)

\* requests of the admin: max_slots for a session, guest_count for a booking
SessionUpdates == {<<"s1", 1>>, <<"s1", 3>>}
BookingUpdates == BookingIds \X {0, 1}
\* bookings created next to the admin's requests: a ticket booking with a
\* paying guest and a drop-in booking
AdminCreateRequests == {<<"u1", "s1", 1>>, <<"u2", "s1", 0>>}

NextAdmin ==
    \/ \E p \in Procs, r \in AdminCreateRequests : BeginCreate(p, r[1], r[2], r[3])
    \/ \E p \in Procs : CreateStep(p)
    \/ \E p \in Procs, r \in CancelRequests : BeginCancel(p, r[1], r[2])
    \/ \E p \in Procs : CancelStep(p)
    \/ \E r \in Reapers : StartSweep(r)
    \/ \E r \in Reapers : SweepStep(r)
    \/ \E p \in Procs, u \in Users, n \in TicketAmounts : BeginGrant(p, u, n)
    \/ \E p \in Procs, u \in Users, n \in TicketAmounts : BeginRevoke(p, u, n)
    \/ \E p \in Procs, r \in SessionUpdates : BeginUpdateSession(p, r[1], r[2])
    \/ \E p \in Procs, r \in BookingUpdates : BeginUpdateBooking(p, r[1], r[2])
    \/ \E p \in Procs, u \in Users : BeginDeleteUser(p, u)
    \/ \E p \in Procs : AdminStep(p)
    \/ Tick

\* bookings are created, cancelled and reaped while an admin edits sessions,
\* bookings, users and ticket balances; no storage errors
SpecAdmin == Init /\ [][NextAdmin]_vars

\* ---- pricing inputs ----
\* prices a session can carry (sessions.price_vnd is an unconstrained Option<i32>)
PriceInputs == {NULL, 0, 155, 30000000}
\* requests for session s1 with 0 to 2 guests
PricingRequests == {<<u, "s1", g>> : u \in Users, g \in 0..2}

\* databases that differ in the price of s1, in u1's ticket balance and in
\* whether u2 has a subscription that is no longer active
InitPricing ==
    /\ \E price \in PriceInputs :
          sessions = [InitSessions EXCEPT !["s1"].price_vnd = price,
                                          !["s1"].max_players_per_court = 3,
                                          !["s1"].total_slots = 3,
                                          !["s1"].available_slots = 3]
    /\ \E tickets \in {0, InitialTickets}, other \in {"absent", "cancelled"} :
          /\ subscriptions =
                [u \in Users |->
                    IF u = "u1" THEN [status |-> "active", tickets_remaining |-> tickets]
                    ELSE [status |-> other,
                          tickets_remaining |-> IF other = "absent" THEN 0 ELSE 1]]
          /\ ticket_transactions =
                InitLedger
                \o (IF tickets = InitialTickets THEN <<>>
                    ELSE <<[user |-> "u1", booking_id |-> NULL,
                            transaction_type |-> "revoked",
                            amount |-> -InitialTickets, balance_after |-> 0]>>)
                \o (IF other = "absent" THEN <<>>
                    ELSE <<[user |-> "u2", booking_id |-> NULL,
                            transaction_type |-> "subscription_grant",
                            amount |-> 1, balance_after |-> 1]>>)
    /\ bookings = <<>>
    /\ users = InitUsers
    /\ sessLock = [s \in SessionIds |-> NOBODY]
    /\ subLock = [u \in Users |-> NOBODY]
    /\ pc = [p \in Procs |-> "idle"]
    /\ loc = [p \in Procs |-> IdleLoc]
    /\ sweep = [r \in Reapers |-> IdleSweep]
    /\ clock = 1
    /\ calls = 0
    /\ sweeps = 0
    /\ faults = 0
    /\ releases = [a \in Actors |-> [b \in BookingIds |-> 0]]
    /\ restores = [a \in Actors |-> [b \in BookingIds |-> 0]]

NextPricing ==
    \/ \E p \in Procs, r \in PricingRequests : BeginCreate(p, r[1], r[2], r[3])
    \/ \E p \in Procs : CreateStep(p)
    \/ Tick

\* create_booking_with_lock over the pricing inputs, without storage errors
SpecPricing == InitPricing /\ [][NextPricing]_vars

\* ---------------------------------------------------------------------------
\* Properties
\* ---------------------------------------------------------------------------

\* slots held by the non-cancelled bookings of a session
SlotsConsumed(s) ==
    SumSeq([i \in 1..Len(bookings) |->
              IF bookings[i].session_id = s /\ bookings[i].cancelled_at = NULL
              THEN 1 + bookings[i].guest_count ELSE 0])

\* signed amounts of a user's ledger entries, summed
LedgerSum(u) ==
    SumSeq([i \in 1..Len(ticket_transactions) |->
              IF ticket_transactions[i].user = u THEN ticket_transactions[i].amount ELSE 0])

\* bookings of a user that consumed a ticket
TicketBookings(u) ==
    Cardinality({i \in 1..Len(bookings) :
                    bookings[i].user_id = u /\ bookings[i].tickets_used = 1})

Finished(p, op) == pc[p] = "done" /\ loc[p].op = op

\* C1: under any interleaving of concurrent create_booking_with_lock calls, no
\* session's available_slots is below 0 and the slots held by its committed
\* non-cancelled bookings never exceed total_slots.
C1_NoOverselling ==
    \A s \in SessionIds :
        /\ sessions[s].available_slots >= 0
        /\ SlotsConsumed(s) <= sessions[s].total_slots

\* two calls for the last slots of a session overlapped; one took them and the
\* other, which arrived while slots were still available, got Conflict
C1_Witness ==
    \E s \in SessionIds, p, q \in Procs :
        /\ p # q /\ Finished(p, "create") /\ Finished(q, "create")
        /\ loc[p].session_id = s /\ loc[q].session_id = s
        /\ loc[p].user # loc[q].user
        /\ loc[p].result = "Ok" /\ loc[q].result = "Conflict"
        /\ loc[q].start_avail > 0
        /\ sessions[s].available_slots = 0

\* C2: two different users each ask for 1 slot (no guests) of a bookable
\* session whose available_slots is 1 when both calls arrive; when no storage
\* error interferes exactly one call returns Ok and the other Conflict.
C2_ExactlyOneWins ==
    \A p, q \in Procs :
        ( /\ p # q /\ Finished(p, "create") /\ Finished(q, "create")
          /\ loc[p].session_id = loc[q].session_id
          /\ loc[p].session_id \in SessionIds
          /\ loc[p].user # loc[q].user
          /\ loc[p].guest_count = 0 /\ loc[q].guest_count = 0
          /\ loc[p].start_avail = 1 /\ loc[q].start_avail = 1
          /\ ~sessions[loc[p].session_id].cancelled
          /\ sessions[loc[p].session_id].date >= now \div MINUTES_PER_DAY
          /\ loc[p].result # "Database" /\ loc[q].result # "Database" )
        => {loc[p].result, loc[q].result} = {"Ok", "Conflict"}

\* the race for the single slot of s2 was run: the later request slot won
C2_Witness ==
    /\ Finished(1, "create") /\ Finished(2, "create")
    /\ loc[1].session_id = "s2" /\ loc[2].session_id = "s2"
    /\ loc[1].user # loc[2].user
    /\ loc[1].start_avail = 1 /\ loc[2].start_avail = 1
    /\ loc[1].result = "Conflict" /\ loc[2].result = "Ok"
    /\ Len(bookings) = 1

\* C3: in every reachable state a user has at most one non-cancelled booking
\* per session.
C3_OnePerUserSession ==
    \A i, j \in 1..Len(bookings) :
        ( /\ i # j
          /\ bookings[i].user_id = bookings[j].user_id
          /\ bookings[i].session_id = bookings[j].session_id )
        => (bookings[i].cancelled_at # NULL \/ bookings[j].cancelled_at # NULL)

\* the same user sent two overlapping calls for one session: both arrived
\* before either committed, one returned Ok and the other Conflict
C3_Witness ==
    \E p, q \in Procs :
        /\ p # q /\ Finished(p, "create") /\ Finished(q, "create")
        /\ loc[p].user = loc[q].user
        /\ loc[p].session_id = loc[q].session_id
        /\ loc[p].start_avail = loc[q].start_avail
        /\ loc[p].result = "Ok" /\ loc[q].result = "Conflict"
        /\ sessions[loc[p].session_id].available_slots > 0

\* C4: for every session, in every state, the slots of its non-cancelled
\* bookings equal total_slots - available_slots and available_slots is within
\* [0, total_slots].
C4_SlotAccounting ==
    \A s \in SessionIds :
        /\ SlotsConsumed(s) = sessions[s].total_slots - sessions[s].available_slots
        /\ sessions[s].available_slots >= 0
        /\ sessions[s].available_slots <= sessions[s].total_slots

\* C5: for every subscription, in every state, the signed amounts of its ledger
\* entries add up to tickets_remaining.
C5_LedgerReplay ==
    \A u \in Users :
        subscriptions[u].status # "absent"
            => LedgerSum(u) = subscriptions[u].tickets_remaining

\* C6: concurrent create_booking_with_lock calls never spend a ticket twice:
\* tickets_remaining is never negative, the tickets spent and the tickets left
\* add up to the tickets granted, a subscriber's booking without a ticket is
\* priced out_of_ticket, and the call that finds the balance at 0 is not failed
\* (without a storage error no call returns a database error).
C6_NoDoubleSpend ==
    /\ \A u \in Users :
          /\ subscriptions[u].tickets_remaining >= 0
          /\ TicketBookings(u) + subscriptions[u].tickets_remaining
                = InitSubscriptions[u].tickets_remaining
    /\ \A i \in 1..Len(bookings) :
          (subscriptions[bookings[i].user_id].status = "active"
             /\ bookings[i].tickets_used = 0)
          => bookings[i].discount_applied = "out_of_ticket"
    /\ faults = 0 => \A p \in Procs : ~(pc[p] = "done" /\ loc[p].result = "Database")

\* the subscriber with one ticket sent two overlapping calls for different
\* sessions: one booking used the ticket, the other was priced out_of_ticket
C6_Witness ==
    /\ InitialTickets = 1
    /\ Finished(1, "create") /\ Finished(2, "create")
    /\ loc[1].user = "u1" /\ loc[2].user = "u1"
    /\ loc[1].session_id # loc[2].session_id
    /\ loc[1].result = "Ok" /\ loc[2].result = "Ok"
    /\ Len(bookings) = 2
    /\ {bookings[1].discount_applied, bookings[2].discount_applied}
          = {"ticket", "out_of_ticket"}
    /\ subscriptions["u1"].tickets_remaining = 0

\* C7: create_booking_with_lock is all-or-nothing: no step of a call other than
\* its successful commit changes any table, so a call that fails at any
\* statement leaves tickets, ledger, bookings and available_slots as they were
\* and nothing of a running call is visible to others.
C7_AllOrNothing ==
    [][\A p \in Procs :
          ( /\ pc[p] \in CreatePcs
            /\ pc'[p] # pc[p]
            /\ ~(pc[p] = "c_commit" /\ loc'[p].result = "Ok") )
          => db' = db]_vars

\* a call of the subscriber failed at the insert, the back-patch, the slot
\* decrement or the commit, after its ticket deduction, and the tables are as
\* they were initially
C7_Witness ==
    \E p \in Procs :
        /\ Finished(p, "create")
        /\ loc[p].user = "u1"
        /\ loc[p].result = "Database"
        /\ loc[p].failed_at \in {"c_insert", "c_patch", "c_decr", "c_commit"}
        /\ bookings = <<>>
        /\ ticket_transactions = InitLedger
        /\ subscriptions = InitSubscriptions
        /\ sessions = InitSessions

\* C8: when cancel_booking and a sweep act on the same booking, its slots are
\* returned once and its ticket is restored once: never by both.
C8_RaceHarmless ==
    \A b \in BookingIds :
        /\ ~(releases["cancel"][b] >= 1 /\ releases["reaper"][b] >= 1)
        /\ ~(restores["cancel"][b] >= 1 /\ restores["reaper"][b] >= 1)

\* C9: sweeps that run one after the other return the slots of a booking at
\* most once and restore its ticket at most once: a sweep that starts after
\* the booking was reaped does nothing for it.
C9_ReaperIdempotent ==
    \A b \in BookingIds :
        /\ releases["reaper"][b] <= 1
        /\ restores["reaper"][b] <= 1

\* the second sweep runs its query after the first sweep reaped a booking that
\* had used a ticket
C9_Witness ==
    \E r \in Reapers, b \in BookingIds :
        /\ sweeps = 2
        /\ sweep[r].pc = "r_query"
        /\ b <= Len(bookings)
        /\ bookings[b].cancelled_at # NULL
        /\ releases["reaper"][b] = 1
        /\ restores["reaper"][b] = 1
        /\ releases["cancel"][b] = 0

\* C10: also when a sweep fails part-way through a booking, the sweeps return
\* its slots at most once and restore its ticket at most once, and once the
\* reaper has cancelled it and is idle its slots and its ticket (if it used
\* one) have been returned exactly once.
C10_PartialFailureSafe ==
    \A b \in BookingIds :
        /\ releases["reaper"][b] <= 1
        /\ restores["reaper"][b] <= 1
        /\ ( /\ b <= Len(bookings)
             /\ bookings[b].cancelled_at # NULL
             /\ \A r \in Reapers : sweep[r].pc = "idle" )
           => /\ releases["reaper"][b] = 1
              /\ restores["reaper"][b] = bookings[b].tickets_used

\* base * percent / 100 rounded down, computed without leaving the integer range
FloorPercent(base, percent) ==
    (base \div 100) * percent + ((base % 100) * percent) \div 100

\* C11: every booking committed by create_booking_with_lock follows the three
\* pricing rules: no active subscription gives tickets_used 0, discount none,
\* owner price = base price; an active subscription with tickets_remaining > 0
\* gives tickets_used 1, discount ticket, owner price 0; an active subscription
\* with tickets_remaining = 0 gives tickets_used 0, discount out_of_ticket,
\* owner price = floor(base * (100 - discount percent) / 100).
C11_PricingRules ==
    [][\A p \in Procs :
          (pc[p] = "c_commit" /\ pc'[p] = "done" /\ loc'[p].result = "Ok")
          => LET b == bookings'[Len(bookings')]
                 sub == subscriptions[loc[p].user]
                 base == base_price_vnd(sessions[loc[p].session_id])
             IN  IF sub.status # "active"
                 THEN /\ b.tickets_used = 0 /\ b.discount_applied = "none"
                      /\ b.price_paid_vnd = base
                 ELSE IF sub.tickets_remaining > 0
                 THEN /\ b.tickets_used = 1 /\ b.discount_applied = "ticket"
                      /\ b.price_paid_vnd = 0
                 ELSE /\ b.tickets_used = 0 /\ b.discount_applied = "out_of_ticket"
                      /\ b.price_paid_vnd =
                            FloorPercent(base, 100 - loc[p].discount_percent)]_vars

C13_StatusAndDeadline ==
    [][\A p \in Procs :
          (pc[p] = "c_insert" /\ loc'[p].tx_booking # <<>>)
          => LET b == loc'[p].tx_booking[1] IN
             IF b.price_paid_vnd + b.guest_price_paid_vnd = 0
             THEN b.payment_status = "confirmed" /\ b.payment_deadline = NULL
             ELSE /\ b.payment_status = "pending"
                  /\ b.payment_deadline # NULL
                  /\ b.payment_deadline = now + PAYMENT_WINDOW_MINUTES]_vars

\* C14: cancel_booking returns NotFound when the booking does not exist,
\* Forbidden when the requesting user is not its owner and BadRequest when it
\* is already cancelled, and in each case leaves bookings, sessions,
\* subscriptions and the ledger unchanged.
C14_CancelRejections ==
    [][\A p \in Procs :
          (pc[p] = "k_find" /\ pc'[p] # pc[p])
          => LET id == loc[p].booking_id
                 exists == id \in 1..Len(bookings)
                 rejected(res) == /\ pc'[p] = "done" /\ loc'[p].result = res
                                  /\ db' = db
             IN  /\ ~exists => rejected("NotFound")
                 /\ (exists /\ bookings[id].user_id # loc[p].user) => rejected("Forbidden")
                 /\ (exists /\ bookings[id].user_id = loc[p].user
                            /\ bookings[id].cancelled_at # NULL) => rejected("BadRequest")]_vars

\* the owner asked to cancel a booking the reaper had already cancelled and got
\* BadRequest from the already-cancelled check; the call returned nothing to
\* the session or the subscription
C14_Witness ==
    \E p \in Procs :
        /\ Finished(p, "cancel") /\ loc[p].result = "BadRequest"
        /\ loc[p].failed_at = "k_find"
        /\ loc[p].booking_id <= Len(bookings)
        /\ bookings[loc[p].booking_id].user_id = loc[p].user
        /\ bookings[loc[p].booking_id].cancelled_at # NULL
        /\ releases["cancel"][loc[p].booking_id] = 0
        /\ releases["reaper"][loc[p].booking_id] = 1

\* C15: cancel_booking by the owner of a non-cancelled booking returns
\* BadRequest, changing nothing, exactly when now > session start - W hours,
\* where W is the session's subscriber window if the user has an active
\* subscription when the cancellation runs and the drop-in window otherwise;
\* the error names the window that applied, W and the whole hours left until
\* the session starts (0 once it has started).
C15_CancellationWindow ==
    [][\A p \in Procs :
          (pc[p] = "k_issub" /\ pc'[p] # pc[p])
          => LET s == sessions[loc[p].booking[1].session_id]
                 active == subscriptions[loc[p].user].status = "active"
                 W == IF active
                      THEN IF s.subscriber_cancellation_hours = NULL
                           THEN 24 ELSE s.subscriber_cancellation_hours
                      ELSE IF s.drop_in_cancellation_hours = NULL
                           THEN 48 ELSE s.drop_in_cancellation_hours
                 start == s.date * 1440 + s.time
             IN  IF now > start - W * 60
                 THEN /\ pc'[p] = "done" /\ loc'[p].result = "BadRequest"
                      /\ db' = db
                      /\ loc'[p].detail =
                            [who |-> IF active THEN "Subscribers" ELSE "Drop-in players",
                             cancellation_hours |-> W,
                             hours_until_session |->
                                IF start >= now THEN (start - now) \div 60 ELSE 0]
                 ELSE pc'[p] # "done"]_vars

\* a user whose subscription ended after booking with a ticket was refused
\* under the drop-in window, 47 whole hours before the session, one minute
\* after the drop-in deadline and well inside the subscriber window
C15_Witness ==
    \E p \in Procs :
        /\ Finished(p, "cancel") /\ loc[p].result = "BadRequest"
        /\ loc[p].failed_at = "k_issub"
        /\ loc[p].user = "u1"
        /\ subscriptions["u1"].status = "expired"
        /\ bookings[loc[p].booking_id].tickets_used = 1
        /\ bookings[loc[p].booking_id].cancelled_at = NULL
        /\ loc[p].detail = [who |-> "Drop-in players", cancellation_hours |-> 48,
                            hours_until_session |-> 47]

\* C16: round trip.  When the only two calls were a subscriber's booking made
\* with a ticket and without guests (nothing owed, no payment deadline) and
\* its successful cancellation, the subscription's tickets_remaining and the
\* session's available_slots are back at their values before the booking, and
\* the booking is cancelled with cancelled_at set.
C16_RoundTrip ==
    \A p \in Procs : \A i \in 1..Len(bookings) :
        ( /\ calls = 2
          /\ Finished(p, "cancel") /\ loc[p].result = "Ok" /\ loc[p].booking_id = i
          /\ bookings[i].tickets_used = 1 /\ bookings[i].guest_count = 0 )
        => LET b == bookings[i] IN
           /\ b.price_paid_vnd + b.guest_price_paid_vnd = 0
           /\ b.payment_deadline = NULL
           /\ b.payment_status = "cancelled"
           /\ b.cancelled_at # NULL
           /\ subscriptions[b.user_id].tickets_remaining
                 = InitSubscriptions[b.user_id].tickets_remaining
           /\ sessions[b.session_id].available_slots
                 = InitSessions[b.session_id].available_slots

C16_Witness ==
    /\ calls = 2
    /\ Len(bookings) = 1
    /\ bookings[1].user_id = "u1" /\ bookings[1].session_id = "s1"
    /\ bookings[1].tickets_used = 1 /\ bookings[1].guest_count = 0
    /\ bookings[1].cancelled_at # NULL
    /\ \E p \in Procs : Finished(p, "cancel") /\ loc[p].result = "Ok"
                          /\ loc[p].booking_id = 1
    /\ restores["cancel"][1] = 1 /\ releases["cancel"][1] = 1
    /\ subscriptions["u1"].tickets_remaining = InitialTickets
    /\ sessions["s1"].available_slots = 2

\* C17: a booking created with an amount owed (it has a payment deadline)
\* whose deadline has passed unpaid is selected by the reaper's query, and when
\* the reaper leaves it the booking is cancelled, its 1 + guest_count slots
\* have been returned to the session exactly once and its ticket, if it used
\* one, has been restored exactly once.
C17_ExpiredReleasedOnce ==
    [][\A r \in Reapers :
        /\ (sweep[r].pc = "r_query" /\ sweep'[r].pc # "r_query")
           => \A i \in 1..Len(bookings) :
                ( /\ bookings[i].payment_status = "pending"
                  /\ bookings[i].cancelled_at = NULL
                  /\ bookings[i].payment_deadline # NULL
                  /\ bookings[i].payment_deadline < sweep[r].before )
                => \E b \in sweep'[r].todo \cup {sweep'[r].cur[1]} : b.id = i
        /\ (sweep[r].cur # <<>> /\ sweep'[r].cur # sweep[r].cur)
           => LET b == sweep[r].cur[1] IN
              /\ bookings'[b.id].cancelled_at # NULL
              /\ bookings'[b.id].payment_status = "cancelled"
              /\ releases'["reaper"][b.id] + releases'["cancel"][b.id] = 1
              /\ sessions'[b.session_id].available_slots
                    = sessions[b.session_id].available_slots + 1 + b.guest_count
              /\ restores'["reaper"][b.id] + restores'["cancel"][b.id] = b.tickets_used
    ]_vars

\* C18: a storage failure while the reaper processes one selected booking does
\* not abort the sweep.  A sweep that is past its query returns only when no
\* selected booking is left, and it returns Ok; no step, failing or not, drops
\* a selected booking that has not had its turn; and every booking whose turn
\* ends without a failure in that step is cancelled with its slots returned.
C18_FailureDoesNotAbortSweep ==
    [][\A r \in Reapers :
        sweep[r].pc \notin {"idle", "r_query"}
        => /\ sweep'[r].pc = "idle"
                => sweep[r].todo = {} /\ sweep'[r].result = "Ok"
           /\ \A b \in sweep[r].todo :
                b \in sweep'[r].todo \/ sweep'[r].cur = <<b>>
           /\ (sweep'[r].cur # sweep[r].cur /\ faults' = faults)
                => LET b == sweep[r].cur[1] IN
                   /\ bookings'[b.id].cancelled_at # NULL
                   /\ releases'["reaper"][b.id] >= 1
    ]_vars

\* in the first sweep the turn of one selected booking ended with a failure
\* and another selected booking has been cancelled after it
C18_Witness ==
    /\ sweeps = 1 /\ faults = 1
    /\ \E r \in Reapers :
        /\ sweep[r].pc = "r_incr"
        /\ sweep[r].cur[1].tickets_used = 0
        /\ bookings[sweep[r].cur[1].id].cancelled_at # NULL
        /\ \E i \in 1..Len(bookings) :
            /\ i # sweep[r].cur[1].id
            /\ bookings[i].payment_status = "pending"
            /\ bookings[i].cancelled_at = NULL
            /\ bookings[i].payment_deadline # NULL
            /\ bookings[i].payment_deadline < sweep[r].before
            /\ bookings[i].tickets_used = 0
            /\ \A b \in sweep[r].todo : b.id # i

\* C19: liveness.  While sweeps keep running and storage failures and stops of
\* the jobs process are finitely many, every booking that is pending with an
\* elapsed payment deadline is eventually cancelled, also when the deadline
\* elapsed while the jobs process was stopped.
C19_ExpiredEventuallyCancelled ==
    \A i \in BookingIds :
        ( /\ i <= Len(bookings)
          /\ bookings[i].payment_status = "pending"
          /\ bookings[i].cancelled_at = NULL
          /\ bookings[i].payment_deadline # NULL
          /\ bookings[i].payment_deadline < now )
        ~> ( i <= Len(bookings) /\ bookings[i].cancelled_at # NULL )

\* the jobs process is stopped and the deadline of a pending booking made
\* before the stop has elapsed
C19_Witness ==
    /\ \A r \in Reapers : sweep[r].pc = "stopped"
    /\ \E i \in 1..Len(bookings) :
        /\ bookings[i].payment_status = "pending"
        /\ bookings[i].cancelled_at = NULL
        /\ bookings[i].payment_deadline # NULL
        /\ bookings[i].payment_deadline < now

\* C20: a payment_intent.succeeded delivery for an existing booking sets the
\* booking to confirmed with the PaymentIntent id and changes nothing else;
\* a delivery for a booking that is already confirmed with the same
\* PaymentIntent id succeeds and changes neither payment_status,
\* stripe_payment_id, any other booking column, available_slots nor tickets,
\* so delivering twice leaves the state that delivering once left.
C20_DuplicateWebhookIsNoOp ==
    [][\A p \in Procs :
        ( /\ pc[p] = "w_update" /\ pc'[p] = "done"
          /\ loc[p].booking_id \in 1..Len(bookings) )
        => LET id == loc[p].booking_id
               charge == loc[p].detail[1]
           IN  /\ loc'[p].result = "Ok"
               /\ bookings' = [bookings EXCEPT ![id].payment_status = "confirmed",
                                                ![id].stripe_payment_id = charge]
               /\ sessions' = sessions
               /\ subscriptions' = subscriptions
               /\ ticket_transactions' = ticket_transactions
               /\ ( bookings[id].payment_status = "confirmed"
                    /\ bookings[id].stripe_payment_id = charge )
                  => bookings' = bookings
    ]_vars

\* the same delivery has been handled twice for a booking that was created
\* with an amount owed
C20_Witness ==
    \E i \in 1..Len(bookings), c \in PaymentIntents :
        /\ \A p \in Procs : /\ Finished(p, "webhook") /\ loc[p].result = "Ok"
                             /\ loc[p].booking_id = i /\ loc[p].detail = <<c>>
        /\ bookings[i].payment_deadline # NULL
        /\ bookings[i].payment_status = "confirmed"
        /\ bookings[i].stripe_payment_id = c
        /\ bookings[i].cancelled_at = NULL
        /\ sessions[bookings[i].session_id].available_slots
              = InitSessions[bookings[i].session_id].available_slots
                  - (1 + bookings[i].guest_count)

\* C21: cancelled is a terminal state.  No step changes the payment_status of
\* a booking whose cancelled_at is set, and in no state is a booking with
\* cancelled_at set in payment_status confirmed.
C21_CancelledIsTerminal ==
    /\ [](\A i \in 1..Len(bookings) :
            bookings[i].cancelled_at # NULL => bookings[i].payment_status # "confirmed")
    /\ [][\A i \in 1..Len(bookings) :
            bookings[i].cancelled_at # NULL
            => bookings'[i].payment_status = bookings[i].payment_status]_vars

\* C22: whenever cancel_booking succeeds for a booking that it read as
\* confirmed with a PaymentIntent id stored (a confirmed external payment), the
\* request has signalled a refund of that PaymentIntent to the gateway by the
\* time it returns.
C22_RefundSignalled ==
    [][\A p \in Procs :
        ( /\ pc[p] = "k_incr" /\ pc'[p] = "done" /\ loc'[p].result = "Ok"
          /\ loc[p].booking[1].payment_status = "confirmed"
          /\ loc[p].booking[1].stripe_payment_id # NULL )
        => loc[p].booking[1].stripe_payment_id \in loc'[p].refunds
    ]_vars

\* C23: cancel_booking is all-or-nothing.  When no sweep has run and a cancel
\* has ended with a storage error at the state change or at the slot release,
\* this cancel has restored no ticket, the ledger has no restored entry for
\* the booking, the booking is not cancelled and none of its slots has been
\* returned.
C23_CancelAllOrNothing ==
    \A p \in Procs :
        ( /\ sweeps = 0
          /\ Finished(p, "cancel") /\ loc[p].result = "Internal"
          /\ loc[p].failed_at \in {"k_cancel", "k_incr"} )
        => LET id == loc[p].booking_id IN
           /\ restores["cancel"][id] = 0
           /\ \A j \in 1..Len(ticket_transactions) :
                ~ ( ticket_transactions[j].transaction_type = "restored"
                    /\ ticket_transactions[j].booking_id = id )
           /\ bookings[id].cancelled_at = NULL
           /\ releases["cancel"][id] = 0

\* ledger entries of type restored, amount +1, that reference a booking
RestoredEntries(ledger, id) ==
    {j \in 1..Len(ledger) :
        /\ ledger[j].transaction_type = "restored"
        /\ ledger[j].amount = 1
        /\ ledger[j].booking_id = id}

\* C24: when cancel_booking returns Ok for a booking with tickets_used = 1
\* (no sweep having run), the cancellation has increased the owner's
\* tickets_remaining by exactly 1 and the ledger holds exactly one restored
\* entry of amount +1 for the booking, with the new balance; for a booking
\* with tickets_used = 0 the cancellation has restored nothing and the ledger
\* has no restored entry for it.
C24_TicketRestoredOnSuccess ==
    [][\A p \in Procs :
        ( /\ pc[p] = "k_incr" /\ pc'[p] = "done" /\ loc'[p].result = "Ok"
          /\ sweeps = 0 )
        => LET id == loc[p].booking_id
               b == loc[p].booking[1]
           IN  IF b.tickets_used = 1
               THEN /\ restores'["cancel"][id] = 1
                    /\ Cardinality(RestoredEntries(ticket_transactions', id)) = 1
                    /\ \A j \in RestoredEntries(ticket_transactions', id) :
                         ticket_transactions'[j].user = b.user_id
               ELSE /\ restores'["cancel"][id] = 0
                    /\ RestoredEntries(ticket_transactions', id) = {}
    ]_vars

\* ---------------------------------------------------------------------------
\* Lock waits between reservation transactions
\* ---------------------------------------------------------------------------

\* the transaction of request p is open
InCreate(p) == pc[p] \in CreatePcs /\ loc[p].op = "create"

\* request p holds a row lock
HoldsLock(p) ==
    \/ \E s \in SessionIds : sessLock[s] = p
    \/ \E u \in Users : subLock[u] = p

\* the next statement of p's transaction cannot run: it waits for a row lock;
\* q is the other open transaction and holds one
WaitsFor(p, q) ==
    /\ p # q
    /\ InCreate(p) /\ InCreate(q)
    /\ HoldsLock(q)
    /\ ~ENABLED CreateStep(p)

\* C25 as stated: two reservation transactions that differ in the session or in
\* the user never wait for each other
C25_DifferentSessionOrUserNeverBlock ==
    \A p, q \in Procs :
        (loc[p].session_id # loc[q].session_id \/ loc[p].user # loc[q].user)
            => ~WaitsFor(p, q)

\* C25 amended: two reservation transactions that differ in the session and in
\* the user never wait for each other
C25_DisjointNeverBlock ==
    \A p, q \in Procs :
        (loc[p].session_id # loc[q].session_id /\ loc[p].user # loc[q].user)
            => ~WaitsFor(p, q)

\* two open transactions for different sessions and different users, one
\* holding its session row and its subscription row, the other its session row
C25_Witness ==
    \E p, q \in Procs :
        /\ p # q
        /\ InCreate(p) /\ InCreate(q)
        /\ loc[p].session_id # loc[q].session_id
        /\ loc[p].user # loc[q].user
        /\ loc[p].session_id \in SessionIds /\ loc[q].session_id \in SessionIds
        /\ sessLock[loc[p].session_id] = p
        /\ subLock[loc[p].user] = p
        /\ sessLock[loc[q].session_id] = q

\* a step changes a session's available_slots or a subscription's tickets_remaining
SharedResourceChanged ==
    \/ \E s \in SessionIds : sessions'[s].available_slots # sessions[s].available_slots
    \/ \E u \in Users : subscriptions'[u].tickets_remaining # subscriptions[u].tickets_remaining

\* C26: available_slots and tickets_remaining are changed only by steps of
\* booking creation, of booking cancellation and of the reaper's sweep; admin
\* session update, admin booking update, user deletion and ticket grant and
\* revocation leave both unchanged
C26_OnlyTransactionsChangeSharedResources ==
    [][SharedResourceChanged =>
          \/ \E p \in Procs : CreateStep(p) \/ CancelStep(p)
          \/ \E r \in Reapers : SweepStep(r)]_vars

\* the rejection the checks give when they are applied to the locked session
\* row in the order session cancelled or past, duplicate, capacity; "" when
\* none of them rejects
ExpectedRejection(p) ==
    LET session == loc[p].session[1]
        now_date == now \div MINUTES_PER_DAY
    IN  IF session.cancelled \/ session.date < now_date THEN "BadRequest"
        ELSE IF has_active_booking_for_session(loc[p].user, loc[p].session_id)
             THEN "Conflict"
        ELSE IF session.available_slots < 1 + loc[p].guest_count THEN "Conflict"
        ELSE ""

\* C27: a create call for a session that does not exist returns NotFound; for
\* an existing session it returns the error of the first failing check in the
\* order cancelled or past (BadRequest), duplicate (Conflict), capacity
\* (Conflict), and goes on when none fails; a rejected call changes no table
\* and keeps no lock
C27_RejectionOrder ==
    [][\A p \in Procs :
          /\ (pc[p] = "c_lock" /\ pc'[p] # "c_lock" /\ faults' = faults
                  /\ loc[p].session_id \notin SessionIds)
                => /\ pc'[p] = "done" /\ loc'[p].result = "NotFound"
                   /\ UNCHANGED db
          /\ (pc[p] = "c_dup" /\ pc'[p] # "c_dup" /\ faults' = faults)
                => IF ExpectedRejection(p) # ""
                   THEN /\ pc'[p] = "done" /\ loc'[p].result = ExpectedRejection(p)
                        /\ UNCHANGED db
                        /\ \A s \in SessionIds : sessLock'[s] # p
                   ELSE pc'[p] = "c_sub"]_vars

\* the rows a sweep holds after its query: the one it works on and the rest
Selected(sw) == sw.todo \cup (IF sw.cur = <<>> THEN {} ELSE {sw.cur[1]})

UsedEntries(ledger, id) ==
    {i \in 1..Len(ledger) : /\ ledger[i].transaction_type = "used"
                            /\ ledger[i].booking_id = id}

\* C29: a committing create call that consumed a ticket appends exactly one
\* ledger entry, of type used, amount -1, balance equal to the subscription's
\* new tickets_remaining and booking id equal to the new booking, and changes
\* no earlier entry; a create call that consumed no ticket leaves the ledger
\* alone; no committed used entry has an empty booking id, and every booking
\* that consumed a ticket has exactly one used entry
C29_UsedEntryPerTicketBooking ==
    /\ [](\A i \in 1..Len(ticket_transactions) :
             ticket_transactions[i].transaction_type = "used"
                => /\ ticket_transactions[i].booking_id \in 1..Len(bookings)
                   /\ bookings[ticket_transactions[i].booking_id].user_id
                         = ticket_transactions[i].user)
    /\ [](\A b \in 1..Len(bookings) :
             Cardinality(UsedEntries(ticket_transactions, b)) = bookings[b].tickets_used)
    /\ [][\A p \in Procs :
             (pc[p] = "c_commit" /\ pc'[p] = "done" /\ loc'[p].result = "Ok")
                => LET id == Len(bookings) + 1
                       u == loc[p].user
                   IN  IF bookings'[id].tickets_used = 1
                       THEN ticket_transactions' = Append(ticket_transactions,
                               [user |-> u, booking_id |-> id,
                                transaction_type |-> "used", amount |-> -1,
                                balance_after |-> subscriptions'[u].tickets_remaining])
                       ELSE ticket_transactions' = ticket_transactions]_vars

\* a ticket booking is committed next to an earlier booking of another user
C29_Witness ==
    \E b \in 1..Len(bookings) :
        /\ b > 1
        /\ bookings[b].tickets_used = 1
        /\ UsedEntries(ticket_transactions, b) # {}
        /\ subscriptions[bookings[b].user_id].tickets_remaining = InitialTickets - 1

\* C30: the reaper never cancels, and never releases the slots of, a booking
\* that the payment gateway has confirmed, also when the confirmation arrives
\* between the sweep's query and its cancel statement
C30_ConfirmedNeverReaped ==
    [][\A r \in Reapers :
          (sweep[r].pc \in {"r_cancel", "r_incr"} /\ sweep'[r] # sweep[r])
             => LET b == sweep[r].cur[1] IN
                ~(/\ bookings[b.id].payment_status = "confirmed"
                  /\ bookings[b.id].stripe_payment_id # NULL)]_vars

\* ---------------------------------------------------------------------------
\* Concurrent cancellations of one booking
\* ---------------------------------------------------------------------------

\* the booking u1 made at minute 1410 for s1 with one guest: it used u1's
\* ticket and the guest's price is owed
BookedRow ==
    [user_id |-> "u1", session_id |-> "s1", guest_count |-> 1,
     tickets_used |-> 1, discount_applied |-> "ticket",
     price_paid_vnd |-> 0, guest_price_paid_vnd |-> 100000,
     payment_status |-> "pending",
     payment_deadline |-> Instants[1] + PAYMENT_WINDOW_MINUTES,
     stripe_payment_id |-> NULL, cancelled_at |-> NULL]

\* the database after that create_booking_with_lock call committed
InitBooked ==
    /\ sessions = [InitSessions EXCEPT !["s1"].available_slots = 0]
    /\ bookings = <<BookedRow>>
    /\ users = InitUsers
    /\ subscriptions = [InitSubscriptions EXCEPT !["u1"].tickets_remaining = InitialTickets - 1]
    /\ ticket_transactions =
          Append(InitLedger, [user |-> "u1", booking_id |-> 1, transaction_type |-> "used",
                              amount |-> -1, balance_after |-> InitialTickets - 1])
    /\ sessLock = [s \in SessionIds |-> NOBODY]
    /\ subLock = [u \in Users |-> NOBODY]
    /\ pc = [p \in Procs |-> "idle"]
    /\ loc = [p \in Procs |-> IdleLoc]
    /\ sweep = [r \in Reapers |-> IdleSweep]
    /\ clock = 1
    /\ calls = 0
    /\ sweeps = 0
    /\ faults = 0
    /\ releases = [a \in Actors |-> [b \in BookingIds |-> 0]]
    /\ restores = [a \in Actors |-> [b \in BookingIds |-> 0]]

NextCancel ==
    \/ \E p \in Procs, r \in CancelRequests : BeginCancel(p, r[1], r[2])
    \/ \E p \in Procs : CancelStep(p)
    \/ Tick

\* cancel_booking calls on the booked database, without storage errors
SpecCancel == InitBooked /\ [][NextCancel]_vars

\* the booked database is one the reservation path produces
InitBookedReached ==
    /\ bookings = <<BookedRow>>
    /\ sessions = [InitSessions EXCEPT !["s1"].available_slots = 0]
    /\ subscriptions = [InitSubscriptions EXCEPT !["u1"].tickets_remaining = InitialTickets - 1]
    /\ ticket_transactions =
          Append(InitLedger, [user |-> "u1", booking_id |-> 1, transaction_type |-> "used",
                              amount |-> -1, balance_after |-> InitialTickets - 1])

\* C31: when two cancel_booking calls of the owner for the same booking run
\* concurrently, at most one returns Ok, the booking's 1 + guest_count slots
\* are added back to available_slots exactly once and its ticket is restored
\* exactly once.
C31_ConcurrentCancelOnce ==
    \A b \in BookingIds :
        /\ releases["cancel"][b] <= 1
        /\ restores["cancel"][b] <= 1
        /\ Cardinality({p \in Procs : /\ Finished(p, "cancel")
                                      /\ loc[p].booking_id = b
                                      /\ loc[p].result = "Ok"}) <= 1
        /\ ( /\ b <= Len(bookings)
             /\ bookings[b].cancelled_at # NULL
             /\ \A p \in Procs : pc[p] \in {"idle", "done"} )
           => /\ releases["cancel"][b] = 1
              /\ restores["cancel"][b] = bookings[b].tickets_used
              /\ sessions[bookings[b].session_id].available_slots
                    = sessions[bookings[b].session_id].total_slots - SlotsConsumed(bookings[b].session_id)

\* ---------------------------------------------------------------------------
\* Overlapping runs of the release job
\* ---------------------------------------------------------------------------

\* jobs/src/main.rs: the scheduler spawns one task per firing of the cron
\* expression and does not wait for the previous task: two runs of
\* release_unpaid_bookings can be open at once
SweepRuns == {"r1", "r2"}

\* the booked database with the job's two runs idle
InitOverlap ==
    /\ sessions = [InitSessions EXCEPT !["s1"].available_slots = 0]
    /\ bookings = <<BookedRow>>
    /\ users = InitUsers
    /\ subscriptions = [InitSubscriptions EXCEPT !["u1"].tickets_remaining = InitialTickets - 1]
    /\ ticket_transactions =
          Append(InitLedger, [user |-> "u1", booking_id |-> 1, transaction_type |-> "used",
                              amount |-> -1, balance_after |-> InitialTickets - 1])
    /\ sessLock = [s \in SessionIds |-> NOBODY]
    /\ subLock = [u \in Users |-> NOBODY]
    /\ pc = [p \in Procs |-> "idle"]
    /\ loc = [p \in Procs |-> IdleLoc]
    /\ sweep = [r \in SweepRuns |-> IdleSweep]
    /\ clock = 1
    /\ calls = 0
    /\ sweeps = 0
    /\ faults = 0
    /\ releases = [a \in Actors |-> [b \in BookingIds |-> 0]]
    /\ restores = [a \in Actors |-> [b \in BookingIds |-> 0]]

NextOverlap ==
    \/ \E r \in SweepRuns : StartSweep(r)
    \/ \E r \in SweepRuns : SweepStep(r)
    \/ Tick

\* the release job alone on the booked database, without storage errors
SpecOverlap == InitOverlap /\ [][NextOverlap]_vars

\* both runs have the booking b in hand or had it
BothSelected(b) ==
    \A r \in SweepRuns :
        \/ sweep[r].cur # <<>> /\ sweep[r].cur[1].id = b
        \/ \E x \in sweep[r].todo : x.id = b

\* C32: when two runs of release_unpaid_bookings overlap and both have
\* selected the same expired booking, its slots are released exactly once and
\* its ticket is restored exactly once.
C32_OverlappingSweepsOnce ==
    \A b \in BookingIds :
        /\ BothSelected(b)
              => /\ releases["reaper"][b] <= 1
                 /\ restores["reaper"][b] <= 1
        /\ ( /\ b <= Len(bookings)
             /\ bookings[b].cancelled_at # NULL
             /\ \A r \in SweepRuns : sweep[r].pc = "idle" )
           => /\ releases["reaper"][b] = 1
              /\ restores["reaper"][b] = bookings[b].tickets_used

\* no request handler and no run of the release job is between two statements
Quiescent ==
    /\ \A p \in Procs : pc[p] \in {"idle", "done"}
    /\ \A r \in DOMAIN sweep : sweep[r].pc \in {"idle", "stopped"}

\* positions of a user's entries in the ledger
EntriesOf(u) == {i \in 1..Len(ticket_transactions) : ticket_transactions[i].user = u}

\* the entry of the user appended last
LatestEntry(u) == ticket_transactions[CHOOSE m \in EntriesOf(u) : \A k \in EntriesOf(u) : k <= m]

\* C33: in every state with no ticket operation in flight, balance_after of
\* the most recently appended ledger entry of a subscription equals its
\* tickets_remaining, also when restores, grants and revocations ran
\* concurrently on the subscription.
C33_LatestEntryCarriesBalance ==
    Quiescent =>
        \A u \in Users :
            EntriesOf(u) # {}
                => LatestEntry(u).balance_after = subscriptions[u].tickets_remaining

\* routes/admin.rs revoke_tickets: the signed amount handed to
\* ticket_transactions::create_with_pool is -request.amount
RecordedAmount(p) == -loc[p].amount

\* C34: an admin revocation of n tickets from a subscription with balance b
\* sets the balance to max(0, b - n), and the signed amount recorded in the
\* revoked ledger entry equals the change of the balance (new balance - old
\* balance), also when n > b.
C34_RevokedAmountIsBalanceChange ==
    [][\A p \in Procs :
        /\ (pc[p] = "v_revoke" /\ pc'[p] = "v_ledger")
           => LET u == loc[p].user
                  b == subscriptions[u].tickets_remaining
              IN  /\ subscriptions'[u].tickets_remaining = Max(0, b - loc[p].amount)
                  /\ RecordedAmount(p) = subscriptions'[u].tickets_remaining - b
        /\ (pc[p] = "v_ledger" /\ pc'[p] = "done")
           => /\ Len(ticket_transactions') = Len(ticket_transactions) + 1
              /\ LET e == ticket_transactions'[Len(ticket_transactions')]
                 IN  /\ e.user = loc[p].user
                     /\ e.transaction_type = "revoked"
                     /\ e.amount = RecordedAmount(p)
                     /\ e.balance_after = loc[p].new_balance
    ]_vars

\* ---------------------------------------------------------------------------
\* guest_count as an unchecked i32 argument
\* ---------------------------------------------------------------------------

\* guest counts a client can put into the JSON payload: any i32
GuestCounts == {-2, -1, 0, 1, 11}

\* bounds of #[validate(range(min = 0, max = 10))] on CreateBookingRequest.guest_count
MIN_GUEST_COUNT == 0
MAX_GUEST_COUNT == 10

\* a payload check that accepts every guest count
validate_any_guest_count(guest_count) == guest_count \in Int

\* CreateBookingRequest::validate
validate_guest_count(guest_count) ==
    guest_count >= MIN_GUEST_COUNT /\ guest_count <= MAX_GUEST_COUNT

\* routes/bookings.rs create_booking: payload.validate() answers 400 before
\* anything is read or written; a valid payload is handed to
\* create_booking_with_lock, which takes guest_count: i32 and checks nothing
\* about it
create_booking(p, user_id, session_id, guest_count) ==
    IF validate_guest_count(guest_count)
    THEN BeginCreate(p, user_id, session_id, guest_count)
    ELSE /\ FreeSlot(p)
         /\ Authenticated(user_id)
         /\ calls < MaxCalls
         /\ calls' = calls + 1
         /\ pc' = [pc EXCEPT ![p] = "done"]
         /\ loc' = [loc EXCEPT ![p] = [IdleLoc EXCEPT !.op = "create", !.user = user_id,
                                          !.session_id = session_id,
                                          !.guest_count = guest_count,
                                          !.failed_at = "validate",
                                          !.result = "BadRequest"]]
         /\ UNCHANGED <<db, sessLock, subLock, sweep, clock, sweeps, faults, releases,
                        restores>>

GuestRequests ==
    {<<"u2", "s1", g>> : g \in GuestCounts} \cup {<<"u1", "s1", -1>>, <<"u1", "s2", 0>>,
                                                  <<"u1", "s1", 1>>}

NextGuests ==
    \/ \E p \in Procs, r \in GuestRequests : create_booking(p, r[1], r[2], r[3])
    \/ \E p \in Procs : CreateStep(p)
    \/ Tick

\* POST /api/bookings with any of these guest counts, without storage errors
SpecGuests == Init /\ [][NextGuests]_vars

DiscountInputs == {NULL, -20, 0, 20, 100, 150}

\* u1 spends the ticket on one session and books another one out of tickets
DiscountRequests == {<<"u1", "s1", 0>>, <<"u1", "s1", 1>>, <<"u1", "s2", 0>>, <<"u1", "s2", 1>>}

NextDiscount ==
    \/ \E p \in Procs, r \in DiscountRequests : BeginCreate(p, r[1], r[2], r[3])
    \/ \E p \in Procs : CreateStepOver(p, DiscountInputs)
    \/ Tick

\* create_booking_with_lock over the stored discounts, without storage errors
SpecDiscount == Init /\ [][NextDiscount]_vars

\* C36: for every base price and every out-of-ticket discount percent the
\* config table can supply (any integer that parses, 10 when absent or
\* unparseable), the owner price charged to an out-of-ticket subscriber lies in
\* 0..base price and the total owed is not negative.
C36_DiscountedPriceInRange ==
    \A i \in 1..Len(bookings) :
        bookings[i].discount_applied = "out_of_ticket"
            => /\ bookings[i].price_paid_vnd >= 0
               /\ bookings[i].price_paid_vnd <= base_price_vnd(sessions[bookings[i].session_id])
               /\ bookings[i].price_paid_vnd + bookings[i].guest_price_paid_vnd >= 0

\* ---------------------------------------------------------------------------
\* The connection pool (db/src/pool.rs)
\* ---------------------------------------------------------------------------

\* PgPoolOptions::max_connections: the pool of the model has as many
\* connections as the API server has requests in flight (the pool of the
\* program has 20, and the server puts no limit on the requests in flight)
PoolSize == Cardinality(Procs)

\* pool.begin() takes a connection that the Transaction keeps until commit or
\* rollback
ConnectionsInUse == Cardinality({p \in Procs : pc[p] \in CreatePcs})

ConnectionFree == ConnectionsInUse < PoolSize

\* create.rs line 28: pool.begin() waits for a free connection
BeginCreatePooled(p, user_id, session_id, guest_count) ==
    /\ ConnectionFree
    /\ BeginCreate(p, user_id, session_id, guest_count)

\* the statements of the call; has_active_booking_for_session(pool, ..) of
\* line 41 is executed on a second connection taken from the pool
CreateStepPooled(p) ==
    /\ pc[p] = "c_dup" => ConnectionFree
    /\ CreateStep(p)

\* acquire_timeout(30 s): the wait for the second connection ends with
\* PoolTimedOut, `?` returns the error and the dropped Transaction rolls back
AcquireTimeout(p) ==
    /\ pc[p] = "c_dup"
    /\ ~ConnectionFree
    /\ Rollback(p, "Database")

PoolRequests == {<<"u1", "s1", 0>>, <<"u2", "s1", 0>>, <<"u1", "s2", 0>>, <<"u2", "s2", 0>>}

NextPool ==
    \/ \E p \in Procs, r \in PoolRequests : BeginCreatePooled(p, r[1], r[2], r[3])
    \/ \E p \in Procs : CreateStepPooled(p)
    \/ \E p \in Procs : AcquireTimeout(p)
    \/ Tick

\* concurrent create_booking_with_lock calls over the bounded pool; an open
\* call goes on to its next statement and a wait for a connection times out
SpecPool ==
    /\ Init
    /\ [][NextPool]_vars
    /\ \A p \in Procs : WF_vars(CreateStepPooled(p)) /\ WF_vars(AcquireTimeout(p))

\* every connection of the pool is held by a call while the holder of a
\* session lock waits for a free connection and every other holder of a
\* connection waits for that lock
PoolExhausted ==
    \E p \in Procs :
        /\ pc[p] = "c_dup"
        /\ ~ConnectionFree
        /\ \A q \in Procs \ {p} :
              /\ pc[q] = "c_lock"
              /\ loc[q].session_id = loc[p].session_id

\* every call that was started returns
EveryCallReturns ==
    \A p \in Procs : (pc[p] \in CreatePcs) ~> (pc[p] = "done")

\* C37: every create_booking_with_lock call eventually returns for any number
\* of concurrent calls on a session with the bounded pool: no state is
\* reachable in which every pooled connection is held by a call waiting for
\* the session lock while the lock holder waits for a free connection.
C37_NoPoolExhaustion == ~PoolExhausted

\* C38: an admin update_session that changes the capacity of a session
\* preserves its booked slots (new total_slots - new available_slots equals
\* the slots of the session's non-cancelled bookings, with available_slots >=
\* 0), also when it runs next to a reservation or a slot release on the same
\* session: no concurrent change of available_slots is lost.  The session is
\* taken to be consistent before the write and the new capacity to be large
\* enough for its bookings.
C38_UpdateSessionKeepsBookedSlots ==
    [][\A p \in Procs :
        (pc[p] = "us_write" /\ pc'[p] = "done")
        => LET id == loc[p].session_id IN
           ( /\ sessions[id].total_slots - sessions[id].available_slots = SlotsConsumed(id)
             /\ sessions'[id].total_slots >= SlotsConsumed(id) )
           => /\ sessions'[id].total_slots - sessions'[id].available_slots = SlotsConsumed(id)
              /\ sessions'[id].available_slots >= 0
    ]_vars

\* total_slots - available_slots of the session is the slots of its
\* non-cancelled bookings and available_slots lies in 0..total_slots
SessionConsistent(rows, s, consumed) ==
    /\ rows[s].total_slots - rows[s].available_slots = consumed
    /\ rows[s].available_slots >= 0
    /\ rows[s].available_slots <= rows[s].total_slots

\* C39: admin update_booking changing a booking's guest_count from g to g'
\* adjusts the session's available_slots by g - g', only when enough slots are
\* available, and afterwards total_slots - available_slots still equals the
\* slots of the session's non-cancelled bookings with available_slots in
\* 0..total_slots; this holds for every booking it can be applied to, an
\* already-cancelled one included.  The session is taken to be consistent
\* before the commit.
C39_UpdateBookingKeepsAccounting ==
    [][\A p \in Procs :
        (pc[p] = "ub_commit" /\ pc'[p] = "done")
        => LET id == loc[p].booking_id
               s == bookings[id].session_id
           IN  SessionConsistent(sessions, s, SlotsConsumed(s))
               => /\ sessions'[s].available_slots
                        = sessions[s].available_slots
                             + bookings[id].guest_count - bookings'[id].guest_count
                  /\ SessionConsistent(sessions', s,
                        SumSeq([i \in 1..Len(bookings') |->
                                  IF bookings'[i].session_id = s /\ bookings'[i].cancelled_at = NULL
                                  THEN 1 + bookings'[i].guest_count ELSE 0]))
    ]_vars

\* ---------------------------------------------------------------------------
\* Ticket conservation
\* ---------------------------------------------------------------------------

\* the statements of admin::delete_user
DeleteUserStep(p) ==
    \/ DeleteUserCheck(p)
    \/ DeleteUserSelect(p)
    \/ DeleteUserRelease(p)
    \/ DeleteUserCancel(p)
    \/ DeleteUserCommit(p)

\* a ticket booking with a paying guest, and a drop-in booking
ConserveRequests == {<<"u1", "s1", 1>>, <<"u1", "s2", 0>>, <<"u2", "s1", 0>>}

NextConserve ==
    \/ \E p \in Procs, r \in ConserveRequests : BeginCreate(p, r[1], r[2], r[3])
    \/ \E p \in Procs : CreateStep(p)
    \/ \E p \in Procs, r \in CancelRequests : BeginCancel(p, r[1], r[2])
    \/ \E p \in Procs : CancelStep(p)
    \/ \E r \in Reapers : StartSweep(r)
    \/ \E r \in Reapers : SweepStep(r)
    \/ \E p \in Procs, u \in Users : BeginDeleteUser(p, u)
    \/ \E p \in Procs : DeleteUserStep(p)
    \/ Tick

\* bookings are created, cancelled and reaped and users are deleted; no ticket
\* is granted or revoked and no storage error occurs
SpecConserve == Init /\ [][NextConserve]_vars

\* non-cancelled bookings of the user that hold a ticket
ActiveTicketBookings(u) ==
    Cardinality({i \in 1..Len(bookings) :
                    /\ bookings[i].user_id = u
                    /\ bookings[i].tickets_used = 1
                    /\ bookings[i].cancelled_at = NULL})

\* C40: without grants, bonuses, renewals and revocations, tickets_remaining
\* of a subscription plus the number of its owner's non-cancelled bookings with
\* tickets_used = 1 has the same value in every quiescent state, across
\* create_booking_with_lock, cancel_booking, the release job and admin
\* delete_user: every path that cancels a ticket booking restores its ticket.
C40_TicketConservation ==
    Quiescent =>
        \A u \in Users :
            subscriptions[u].status # "absent"
                => subscriptions[u].tickets_remaining + ActiveTicketBookings(u)
                      = InitSubscriptions[u].tickets_remaining

====
